---- MODULE Spec2Model ----
(***************************************************************************)
(* hacklytics_2026 in parts, each with its own specification:              *)
(*   Spec            one websocket streaming session, the consumer being a *)
(*                   FlagAudioConsumer (apps/databricks/consumers.py) or a *)
(*                   VoiceChatStreamConsumer (apps/voicechats/consumers.py)*)
(*   HttpSpec        the HTTP stream registry of apps/voicechats/views.py  *)
(*   ClassifierSpec  classify_text of apps/voicechats/flagging/classifier, *)
(*                   on texts of whole tokens                              *)
(*   NormalizeSpec   normalize_text and classify_text of the same file, on *)
(*                   every short string of a small alphabet                *)
(*   OneStreamSpec   the same registry, the requests for one stream_id     *)
(*   EditSpec        _edit_distance_at_most_one of the classifier          *)
(*   ScoreSpec       normalize_databricks_output and the score message of  *)
(*                   VoiceChatStreamConsumer._score_and_send               *)
(*   ValidateSpec    validate_databricks_endpoint and                      *)
(*                   call_databricks_inference, one caller                 *)
(*                   (apps/voicechats/databricks/client.py)                *)
(*   CallersSpec     the same two functions, several callers at once       *)
(*   QuerySpec       one call of DatabricksClient.query_serving_endpoint   *)
(*                   (apps/databricks/databricks_client.py)                *)
(* The parts share no state; what follows is about the websocket session.  *)
(*                                                                         *)
(* A text is a sequence of words; the single-space join of a list of       *)
(* segments is the concatenation of their word sequences.  The empty text  *)
(* is << >>.  The clock counts ticks, TicksPerSecond of them to a second.  *)
(* A handler that awaits the remote scorer is split at the await: the call *)
(* in flight is `pending`, and the handler resumes in *_score_return.      *)
(* Handlers of one connection run one after the other (the consumer        *)
(* dispatches its messages sequentially), so no handler starts while a     *)
(* call is pending.                                                        *)
(*                                                                         *)
(* close() only asks the server to close: the consumer's fields stay as    *)
(* they are and messages already queued for it are still dispatched, until *)
(* disconnect() runs.  So handlers run while conn is "open" or "closed".   *)
(* The client may go away while a scorer call is in flight (conn becomes    *)
(* "dropped"): it has then sent all it sends, the handler that awaits the  *)
(* call resumes as ever, and disconnect() runs when its turn comes.  A     *)
(* handler that raises ends the consumer: nothing more is dispatched to    *)
(* it, not even disconnect().                                              *)
(*                                                                         *)
(* Inputs: sample rates are integers (FlagAudioConsumer answers any other  *)
(* sample_rate like a non-positive one; VoiceChatStreamConsumer converts   *)
(* with int() outside any try).  A failure of the Recognizer is an outcome *)
(* where the code catches it (VoiceChatStreamConsumer); FlagAudioConsumer  *)
(* has no handler for one.                                                 *)
(*                                                                         *)
(* A session is what a successful start begins: it ends with the handler   *)
(* of the next stop, with a disconnect, or when another start succeeds.    *)
(* The history variables scored_ok and failed are kept per session.        *)
(***************************************************************************)
EXTENDS Integers, Sequences, FiniteSets, TLC

MaxTime == 4
MaxSegs == 2
TicksPerSecond == 2
MaxRequestThreads == 2
MaxStreamSegs == 2
MaxTerms == 2
MaxTokens == 2
MaxChars == 4
MaxEditLen == 3
MaxFields == 2
MaxCallers == 2
MaxTicks == 3
TickSeconds == 30
score_every_seconds == 1

ScoreInterval == score_every_seconds * TicksPerSecond

EmptyText == << >>
Texts == {<<"a">>, <<"b">>, <<"a", "b">>}
SampleRates == {0, 8000, 16000}
VoskStates == {"ok", "no_model", "no_recognizer"}
\* A text frame that is not a start or stop message: it is not JSON, or it is a JSON
\* object whose "type" is something else (or missing), or it is JSON but not an object.
TextKinds == {"invalid_json", "unsupported", "not_object"}
NoCall == [text |-> EmptyText, final |-> FALSE, force |-> FALSE, at |-> 0 - 1, after |-> "none"]

VARIABLES
    consumer,          \* "FlagAudio" or "VoiceChat": the class of this connection's consumer
    endpoint_name,     \* FlagAudio: TRUE iff read_endpoint_config() gave a non-empty name
    recognizer,        \* 0 = None, otherwise the rate the bound KaldiRecognizer was built with
    sample_rate,
    segments,          \* transcript_segments / final_segments
    last_score_time,
    last_scored_text,
    now,               \* time.monotonic(), in ticks
    conn,              \* "open", "closed" (the consumer has called close()), "dropped" (the
                       \* client has gone), "disconnected" (nothing more is dispatched)
    pending,           \* the scorer call in flight, or NoCall
    sent,              \* the messages the current (or latest) handler has sent, in order
    calls,             \* the scorer invocations the current (or latest) handler has made
    op,                \* the event the current (or latest) handler was given
    last_nonforced_at, \* history: time of the latest non-forced scorer invocation, -1 if none
    scored_ok,         \* history: transcript of the session's latest successful invocation
    failed,            \* history: the session's latest invocation, if it failed (else NoFailure)
    started_sent,      \* history: a `started` message has been sent on this connection
    STREAMS,           \* views._STREAMS: stream_id -> the stream's state, or NoStream
    STREAM_LOCK,       \* views._STREAM_LOCK: the request thread holding it, or NoThread
    requests,          \* per request thread: the HTTP request it is serving, and how far it is
    FLAG_TERMS,        \* classifier._FLAG_TERMS: the loaded lexicon, a list of [term, severity]
    input_text,        \* the argument `text` of the current call of classify_text (the
                       \* arguments of the call, for the other functions called alone)
    result,            \* what that call returned, or NoResult while it has not
    query_args,        \* query_serving_endpoint: endpoint_name, and the client's
                       \* default_endpoint_name and host
    query_pc,          \* where the call is: "idle" (no call), "called", "posting",
                       \* "sleeping", "done"
    url,               \* the url the call posts to
    attempt,           \* the loop variable of the retry loop
    last_error,        \* its last_error, or NoError for None
    query_log,         \* history: the requests sent (with the answer each got) and the
                       \* sleeps begun, in order
    query_result,      \* what the call returned or raised, or NoQueryResult
    settings,          \* the Django settings that _read_config reads
    validation_cache,  \* _validation_cache of apps/voicechats/databricks/client.py
    clock,             \* time.time(), in ticks of TickSeconds seconds
    callers            \* per calling thread: its call of validate_databricks_endpoint or
                       \* of call_databricks_inference, and how far it is

wsVars == <<consumer, endpoint_name, recognizer, sample_rate, segments, last_score_time,
            last_scored_text, now, conn, pending, sent, calls, op, last_nonforced_at,
            scored_ok, failed, started_sent>>

httpVars == <<STREAMS, STREAM_LOCK, requests>>

clsVars == <<FLAG_TERMS, input_text, result>>

qryVars == <<query_args, query_pc, url, attempt, last_error, query_log, query_result>>

valVars == <<settings, validation_cache, clock, callers>>

vars == <<wsVars, httpVars, clsVars, qryVars, valVars>>

Msg(type, text, final) == [type |-> type, text |-> text, final |-> final]
ErrorMsg == Msg("error", EmptyText, FALSE)
CloseMsg == Msg("close", EmptyText, FALSE)
StartedMsg == Msg("started", EmptyText, FALSE)
Op(name, kind, text, bound) == [name |-> name, kind |-> kind, text |-> text, was_bound |-> bound]
NoFailure == [text |-> EmptyText, at |-> 0 - 1]

RECURSIVE Join(_)
Join(segs) == IF segs = << >> THEN << >> ELSE Head(segs) \o Join(Tail(segs))

IsPrefix(s, t) == Len(s) <= Len(t) /\ SubSeq(t, 1, Len(s)) = s

Count(ms, type) == Cardinality({i \in 1..Len(ms) : ms[i].type = type})

Closed(c) == IF c = "open" THEN "closed" ELSE c

\* Appended with a fault: the new segment replaces the list.
AppendedReplacing(segs, text) == <<text>>

\* transcript_segments.append(text) / final_segments.append(final_text)
Appended(segs, text) == Append(segs, text)

\* The HTTP stream registry (apps/voicechats/views.py) as the module is loaded: no stream,
\* the lock free, no request being served.
StreamIds == {"A", "B"}
RequestThreads == 1..MaxRequestThreads
NoThread == 0
NoStream == [present |-> FALSE, segments |-> << >>, segment_counter |-> 0, stale |-> FALSE]
NoRequest == [view |-> "none", stream_id |-> "", pc |-> "idle", status |-> 0, text |-> EmptyText]

HttpIdle ==
    /\ STREAMS = [id \in StreamIds |-> NoStream]
    /\ STREAM_LOCK = NoThread
    /\ requests = [t \in RequestThreads |-> NoRequest]

WsInit ==
    /\ consumer \in {"FlagAudio", "VoiceChat"}
    /\ endpoint_name \in BOOLEAN
    /\ (consumer = "VoiceChat" => endpoint_name)
    /\ recognizer = 0
    /\ sample_rate = 16000
    /\ segments = << >>
    /\ last_score_time = 0
    /\ last_scored_text = EmptyText
    /\ now = 0
    /\ conn = "open"
    /\ pending = NoCall
    /\ sent = <<Msg("connected", EmptyText, FALSE)>>
    /\ calls = << >>
    /\ op = Op("connect", "ok", EmptyText, FALSE)
    /\ last_nonforced_at = 0 - 1
    /\ scored_ok = EmptyText
    /\ failed = NoFailure
    /\ started_sent = FALSE

\* The classifier (apps/voicechats/flagging/classifier.py) with nothing loaded and no call.
NoResult == [called |-> FALSE]

ClassifierIdle ==
    /\ FLAG_TERMS = << >>
    /\ input_text = << >>
    /\ result = NoResult

\* No call of query_serving_endpoint is under way.
NoError == [type |-> "None", status |-> 0, detail |-> << >>]
NoQueryResult == [state |-> "none", error |-> NoError, payload |-> "none"]
NoQueryArgs == [endpoint_name |-> "", default_endpoint_name |-> "", host |-> ""]
QueryIdle ==
    /\ query_args = NoQueryArgs
    /\ query_pc = "idle"
    /\ url = ""
    /\ attempt = 0
    /\ last_error = NoError
    /\ query_log = << >>
    /\ query_result = NoQueryResult

\* The remote score adapter (apps/voicechats/databricks/client.py) as the module is
\* loaded: the cache empty, no call in progress.  The answer to a request is its status,
\* or that requests raised a RequestException.
Callers == 1..MaxCallers
Answer(status) == [raised |-> FALSE, status |-> status]
RequestRaised == [raised |-> TRUE, status |-> 0]
NoAnswer == [raised |-> FALSE, status |-> 0]
token1 == <<"t", "1">>
token2 == <<"t", "2">>
GoodSettings == [host |-> "https://h", token |-> token1, endpoint |-> "e"]
NoConfig == [host |-> "", token |-> << >>, endpoint |-> ""]
NoCaller ==
    [fn |-> "none", pc |-> "idle", force |-> FALSE, now |-> 0, config |-> NoConfig,
     cached |-> FALSE, info |-> NoAnswer, probe |-> NoAnswer, is_valid |-> FALSE,
     error |-> "None", posts |-> 0, invoke |-> NoAnswer, outcome |-> "none"]

AdapterIdle ==
    /\ validation_cache = << >>
    /\ clock = 0
    /\ callers = [t \in Callers |-> NoCaller]

ValidationIdle == settings = GoodSettings /\ AdapterIdle

Init == WsInit /\ HttpIdle /\ ClassifierIdle /\ QueryIdle /\ ValidationIdle

\* What every step of a websocket consumer leaves behind besides its own effects: the
\* history of the connection, brought up to date with the messages just sent.  The HTTP
\* views share nothing with a consumer.
History ==
    /\ started_sent' = (started_sent \/ Count(sent', "started") > 0)
    /\ UNCHANGED <<httpVars, clsVars, qryVars, valVars>>

\* Receiving with a fault: the next message is dispatched while the handler of the
\* previous one still awaits the scorer.
ReceivingDuringCall == conn \in {"open", "closed"}

\* The consumer takes its next message: the previous handler has returned (messages are
\* dispatched one at a time, and a handler awaits its scorer call before it returns).
Receiving == conn \in {"open", "closed"} /\ pending = NoCall

Tick ==
    /\ now < MaxTime
    /\ now' = now + 1
    /\ UNCHANGED <<consumer, endpoint_name, recognizer, sample_rate, segments,
                   last_score_time, last_scored_text, conn, pending, sent, calls, op,
                   last_nonforced_at, scored_ok, failed>>
    /\ History

(***************************************************************************)
(* FlagAudioConsumer                                                       *)
(***************************************************************************)

\* FlagAudioDecision with a fault: the throttle interval is not checked.
FlagAudioDecisionUnthrottled(segs, force) ==
    LET transcript == Join(segs) IN
    IF transcript = EmptyText THEN "skip"
    ELSE IF ~force /\ transcript = last_scored_text THEN "skip"
    ELSE IF ~endpoint_name THEN "unconfigured"
    ELSE "invoke"

\* _maybe_score, up to the remote call: what the decision is for the joined transcript.
FlagAudioDecision(segs, force) ==
    LET transcript == Join(segs) IN
    IF transcript = EmptyText THEN "skip"
    ELSE IF ~(force \/ now - last_score_time >= ScoreInterval) THEN "skip"
    ELSE IF ~force /\ transcript = last_scored_text THEN "skip"
    ELSE IF ~endpoint_name THEN "unconfigured"
    ELSE "invoke"

\* FlagAudioStopTail with a fault: the connection is closed before the transcript is sent.
FlagAudioStopTailCloseFirst(segs) == <<CloseMsg, Msg("final", Join(segs), FALSE)>>

\* What _handle_stop sends after _maybe_score has returned: the final transcript, then close().
FlagAudioStopTail(segs) == <<Msg("final", Join(segs), FALSE), CloseMsg>>

\* The rest of a handler from its call of _maybe_score(final, force), after it has sent
\* msgs and made the segment list segs.
FlagAudioMaybeScore(segs, msgs, final, force, after) ==
    LET decision == FlagAudioDecision(segs, force)
        errs == IF decision = "unconfigured" THEN <<ErrorMsg>> ELSE << >>
    IN  /\ segments' = segs
        /\ IF decision = "invoke"
           THEN /\ pending' = [text |-> Join(segs), final |-> final, force |-> force,
                               at |-> now, after |-> after]
                /\ calls' = <<[text |-> Join(segs), force |-> force]>>
                /\ sent' = msgs
                /\ conn' = conn
                /\ last_nonforced_at' = IF force THEN last_nonforced_at ELSE now
                /\ failed' = IF after = "stop" THEN NoFailure ELSE failed
           ELSE /\ pending' = NoCall
                /\ calls' = << >>
                /\ sent' = msgs \o errs \o (IF after = "stop" THEN FlagAudioStopTail(segs) ELSE << >>)
                /\ conn' = IF after = "stop" THEN Closed(conn) ELSE conn
                /\ last_nonforced_at' = last_nonforced_at
                /\ failed' = IF after = "stop" THEN NoFailure ELSE failed

FlagAudio_handle_start(rate, vosk) ==
    /\ consumer = "FlagAudio"
    /\ Receiving
    /\ IF rate <= 0
       THEN /\ op' = Op("start", "bad_rate", EmptyText, recognizer # 0)
            /\ sent' = <<ErrorMsg>>
            /\ UNCHANGED <<recognizer, sample_rate, segments, last_score_time,
                           last_scored_text, conn, scored_ok, failed>>
       ELSE IF vosk # "ok"
       THEN /\ op' = Op("start", vosk, EmptyText, recognizer # 0)
            /\ sent' = <<ErrorMsg, CloseMsg>>
            /\ conn' = Closed(conn)
            /\ UNCHANGED <<recognizer, sample_rate, segments, last_score_time,
                           last_scored_text, scored_ok, failed>>
       ELSE /\ op' = Op("start", "ok", EmptyText, recognizer # 0)
            /\ sample_rate' = rate
            /\ recognizer' = rate
            /\ segments' = << >>
            /\ last_score_time' = now
            /\ last_scored_text' = EmptyText
            /\ sent' = <<StartedMsg>>
            /\ scored_ok' = EmptyText
            /\ failed' = NoFailure
            /\ conn' = conn
    /\ calls' = << >>
    /\ UNCHANGED <<consumer, endpoint_name, now, pending, last_nonforced_at>>
    /\ History

\* accepted = AcceptWaveform(bytes): a Result() text when accepted, else a PartialResult() text.
FlagAudio_handle_audio_bytes(accepted, text) ==
    /\ consumer = "FlagAudio"
    /\ Receiving
    /\ op' = Op("audio", IF accepted THEN "final" ELSE "partial", text, recognizer # 0)
    /\ IF recognizer = 0
       THEN /\ sent' = <<ErrorMsg>>
            /\ calls' = << >>
            /\ UNCHANGED <<segments, conn, pending, last_nonforced_at, failed>>
       ELSE IF accepted
       THEN IF text # EmptyText
            THEN /\ Len(segments) < MaxSegs
                 /\ FlagAudioMaybeScore(Appended(segments, text), <<Msg("segment", text, FALSE)>>,
                                        FALSE, FALSE, "audio")
            ELSE FlagAudioMaybeScore(segments, << >>, FALSE, FALSE, "audio")
       ELSE FlagAudioMaybeScore(segments,
                                IF text # EmptyText THEN <<Msg("partial", text, FALSE)>> ELSE << >>,
                                FALSE, FALSE, "audio")
    /\ UNCHANGED <<consumer, endpoint_name, recognizer, sample_rate, last_score_time,
                   last_scored_text, now, scored_ok>>
    /\ History

\* text is the stripped text of the recognizer's FinalResult().
FlagAudio_handle_stop(text) ==
    /\ consumer = "FlagAudio"
    /\ Receiving
    /\ op' = Op("stop", "ok", text, recognizer # 0)
    /\ IF recognizer = 0
       THEN /\ sent' = <<ErrorMsg, CloseMsg>>
            /\ conn' = Closed(conn)
            /\ calls' = << >>
            /\ UNCHANGED <<segments, pending, last_nonforced_at, failed>>
       ELSE IF text # EmptyText
       THEN /\ Len(segments) < MaxSegs
            /\ FlagAudioMaybeScore(Appended(segments, text), <<Msg("segment", text, FALSE)>>,
                                   TRUE, TRUE, "stop")
       ELSE FlagAudioMaybeScore(segments, << >>, TRUE, TRUE, "stop")
    /\ UNCHANGED <<consumer, endpoint_name, recognizer, sample_rate, last_score_time,
                   last_scored_text, now, scored_ok>>
    /\ History

\* ScoredTextAfter with a fault: a failed call records its transcript as scored too.
ScoredTextAfterAnyCall(ok) == pending.text

\* last_scored_text after the remote call has returned: set on success only.
ScoredTextAfter(ok) == IF ok THEN pending.text ELSE last_scored_text

\* _maybe_score from the return of the remote call: ok iff _score_transcript_sync did not raise.
FlagAudio_score_return(ok) ==
    /\ consumer = "FlagAudio"
    /\ pending # NoCall
    /\ last_score_time' = pending.at
    /\ last_scored_text' = ScoredTextAfter(ok)
    /\ scored_ok' = IF ok THEN pending.text ELSE scored_ok
    /\ sent' = sent \o <<Msg(IF ok THEN "score" ELSE "score_error", EmptyText, pending.final)>>
                    \o (IF pending.after = "stop" THEN FlagAudioStopTail(segments) ELSE << >>)
    /\ conn' = IF pending.after = "stop" THEN Closed(conn) ELSE conn
    /\ failed' = IF ok \/ pending.after = "stop" THEN NoFailure
                 ELSE [text |-> pending.text, at |-> pending.at]
    /\ pending' = NoCall
    /\ UNCHANGED <<consumer, endpoint_name, recognizer, sample_rate, segments, now, calls, op,
                   last_nonforced_at>>
    /\ History

\* _handle_text_message for a text frame that is neither a start nor a stop message.
\* json.loads raises JSONDecodeError, which is caught; payload.get("type") of a JSON value
\* that is not an object raises AttributeError, which nothing catches.
FlagAudio_handle_text_message(kind) ==
    /\ consumer = "FlagAudio"
    /\ Receiving
    /\ op' = Op("text", kind, EmptyText, recognizer # 0)
    /\ sent' = IF kind = "not_object" THEN << >> ELSE <<ErrorMsg>>
    /\ conn' = IF kind = "not_object" THEN "disconnected" ELSE conn
    /\ calls' = << >>
    /\ UNCHANGED <<consumer, endpoint_name, recognizer, sample_rate, segments, last_score_time,
                   last_scored_text, now, pending, last_nonforced_at, scored_ok, failed>>
    /\ History

(***************************************************************************)
(* VoiceChatStreamConsumer                                                 *)
(***************************************************************************)

\* What _stop_stream does after scoring: the final transcript, then (finally:) close().
VoiceChatStopTail(segs) == <<Msg("final", Join(segs), FALSE), CloseMsg>>

\* _score_and_send(finalized_text) up to the remote call, after the handler has sent msgs
\* and made the segment list segs.
VoiceChatScoreAndSend(segs, msgs, text, after) ==
    /\ segments' = segs
    /\ IF text # EmptyText
       THEN /\ pending' = [text |-> text, final |-> FALSE, force |-> FALSE, at |-> now,
                           after |-> after]
            /\ calls' = <<[text |-> text, force |-> FALSE]>>
            /\ sent' = msgs
            /\ conn' = conn
       ELSE /\ pending' = NoCall
            /\ calls' = << >>
            /\ sent' = msgs \o (IF after = "stop" THEN VoiceChatStopTail(segs) ELSE << >>)
            /\ conn' = IF after = "stop" THEN Closed(conn) ELSE conn

\* load_model raises when vosk = "no_model"; create_recognizer raises when the recognizer
\* class is missing or the rate is not positive.
VoiceChat_start_stream(rate, vosk) ==
    /\ consumer = "VoiceChat"
    /\ Receiving
    /\ IF vosk # "ok" \/ rate <= 0
       THEN /\ op' = Op("start", IF vosk # "ok" THEN vosk ELSE "bad_rate", EmptyText,
                        recognizer # 0)
            /\ sent' = <<ErrorMsg, CloseMsg>>
            /\ conn' = Closed(conn)
            /\ UNCHANGED <<recognizer, sample_rate, segments>>
       ELSE /\ op' = Op("start", "ok", EmptyText, recognizer # 0)
            /\ recognizer' = rate
            /\ segments' = << >>
            /\ sample_rate' = rate
            /\ sent' = <<StartedMsg>>
            /\ conn' = conn
    /\ calls' = << >>
    /\ UNCHANGED <<consumer, endpoint_name, last_score_time, last_scored_text, now, pending,
                   last_nonforced_at, scored_ok, failed>>
    /\ History

\* VoiceChat_handle_audio_chunk with a fault: a frame is fed to the recognizer whether or
\* not one is bound.
VoiceChat_handle_audio_chunk_Unguarded(outcome, text) ==
    /\ consumer = "VoiceChat"
    /\ Receiving
    /\ op' = Op("audio", outcome, text, recognizer # 0)
    /\ IF outcome = "raise"
       THEN /\ sent' = <<ErrorMsg>>
            /\ calls' = << >>
            /\ UNCHANGED <<segments, conn, pending>>
       ELSE IF outcome = "partial"
       THEN /\ sent' = IF text # EmptyText THEN <<Msg("partial", text, FALSE)>> ELSE << >>
            /\ calls' = << >>
            /\ UNCHANGED <<segments, conn, pending>>
       ELSE IF text # EmptyText
       THEN /\ Len(segments) < MaxSegs
            /\ VoiceChatScoreAndSend(Appended(segments, text), <<Msg("segment", text, FALSE)>>,
                                     text, "audio")
       ELSE /\ sent' = << >>
            /\ calls' = << >>
            /\ UNCHANGED <<segments, conn, pending>>
    /\ UNCHANGED <<consumer, endpoint_name, recognizer, sample_rate, last_score_time,
                   last_scored_text, now, last_nonforced_at, scored_ok, failed>>
    /\ History

\* outcome is what accept_audio(recognizer, chunk) does: it raises, or returns a final text
\* (is_final) or a partial text; either text may be empty.
VoiceChat_handle_audio_chunk(outcome, text) ==
    /\ consumer = "VoiceChat"
    /\ Receiving
    /\ op' = Op("audio", outcome, text, recognizer # 0)
    /\ IF recognizer = 0 \/ outcome = "raise"
       THEN /\ sent' = <<ErrorMsg>>
            /\ calls' = << >>
            /\ UNCHANGED <<segments, conn, pending>>
       ELSE IF outcome = "partial"
       THEN /\ sent' = IF text # EmptyText THEN <<Msg("partial", text, FALSE)>> ELSE << >>
            /\ calls' = << >>
            /\ UNCHANGED <<segments, conn, pending>>
       ELSE IF text # EmptyText
       THEN /\ Len(segments) < MaxSegs
            /\ VoiceChatScoreAndSend(Appended(segments, text), <<Msg("segment", text, FALSE)>>,
                                     text, "audio")
       ELSE /\ sent' = << >>
            /\ calls' = << >>
            /\ UNCHANGED <<segments, conn, pending>>
    /\ UNCHANGED <<consumer, endpoint_name, recognizer, sample_rate, last_score_time,
                   last_scored_text, now, last_nonforced_at, scored_ok, failed>>
    /\ History

\* outcome = "raise": recognizer.FinalResult() (or parsing its payload) raises; otherwise text
\* is its stripped text.
VoiceChat_stop_stream(outcome, text) ==
    /\ consumer = "VoiceChat"
    /\ Receiving
    /\ op' = Op("stop", outcome, text, recognizer # 0)
    /\ IF recognizer = 0
       THEN /\ sent' = <<ErrorMsg>>
            /\ calls' = << >>
            /\ UNCHANGED <<segments, conn, pending>>
       ELSE IF outcome = "raise"
       THEN /\ sent' = <<ErrorMsg, CloseMsg>>
            /\ conn' = Closed(conn)
            /\ calls' = << >>
            /\ UNCHANGED <<segments, pending>>
       ELSE IF text # EmptyText
       THEN /\ Len(segments) < MaxSegs
            /\ VoiceChatScoreAndSend(Appended(segments, text), <<Msg("segment", text, FALSE)>>,
                                     text, "stop")
       ELSE VoiceChatScoreAndSend(segments, << >>, EmptyText, "stop")
    /\ UNCHANGED <<consumer, endpoint_name, recognizer, sample_rate, last_score_time,
                   last_scored_text, now, last_nonforced_at, scored_ok, failed>>
    /\ History

\* VoiceChat_score_return with a fault: a failed call closes the connection.
VoiceChat_score_return_FatalError(ok) ==
    /\ consumer = "VoiceChat"
    /\ pending # NoCall
    /\ sent' = sent \o <<Msg(IF ok THEN "score" ELSE "score_error", pending.text, FALSE)>>
                    \o (IF ~ok THEN <<CloseMsg>>
                        ELSE IF pending.after = "stop" THEN VoiceChatStopTail(segments)
                        ELSE << >>)
    /\ conn' = IF ~ok \/ pending.after = "stop" THEN Closed(conn) ELSE conn
    /\ pending' = NoCall
    /\ UNCHANGED <<consumer, endpoint_name, recognizer, sample_rate, segments,
                   last_score_time, last_scored_text, now, calls, op, last_nonforced_at,
                   scored_ok, failed>>
    /\ History

\* _score_and_send from the return of the remote call: ok iff call_databricks_inference did
\* not raise.
VoiceChat_score_return(ok) ==
    /\ consumer = "VoiceChat"
    /\ pending # NoCall
    /\ sent' = sent \o <<Msg(IF ok THEN "score" ELSE "score_error", pending.text, FALSE)>>
                    \o (IF pending.after = "stop" THEN VoiceChatStopTail(segments) ELSE << >>)
    /\ conn' = IF pending.after = "stop" THEN Closed(conn) ELSE conn
    /\ pending' = NoCall
    /\ UNCHANGED <<consumer, endpoint_name, recognizer, sample_rate, segments,
                   last_score_time, last_scored_text, now, calls, op, last_nonforced_at,
                   scored_ok, failed>>
    /\ History

\* _handle_text for a text frame that is neither a start nor a stop message: as in
\* FlagAudioConsumer, JSONDecodeError is caught and the AttributeError of payload.get on a
\* JSON value that is not an object is not.
VoiceChat_handle_text(kind) ==
    /\ consumer = "VoiceChat"
    /\ Receiving
    /\ op' = Op("text", kind, EmptyText, recognizer # 0)
    /\ sent' = IF kind = "not_object" THEN << >> ELSE <<ErrorMsg>>
    /\ conn' = IF kind = "not_object" THEN "disconnected" ELSE conn
    /\ calls' = << >>
    /\ UNCHANGED <<consumer, endpoint_name, recognizer, sample_rate, segments, last_score_time,
                   last_scored_text, now, pending, last_nonforced_at, scored_ok, failed>>
    /\ History

\* The client goes away (closes or loses the connection) while a scorer call is in flight:
\* the server queues websocket.disconnect, the last message for this consumer, and no code
\* of the consumer runs.  (With no call in flight, the client's going away is Disconnect.)
ClientDisconnects ==
    /\ pending # NoCall
    /\ conn \in {"open", "closed"}
    /\ conn' = "dropped"
    /\ UNCHANGED <<consumer, endpoint_name, recognizer, sample_rate, segments, last_score_time,
                   last_scored_text, now, pending, sent, calls, op, last_nonforced_at,
                   scored_ok, failed>>
    /\ History

\* disconnect(close_code), run when the connection's websocket.disconnect is dispatched.
Disconnect ==
    /\ conn # "disconnected"
    /\ pending = NoCall
    /\ recognizer' = 0
    /\ conn' = "disconnected"
    /\ op' = Op("disconnect", "ok", EmptyText, recognizer # 0)
    /\ sent' = << >>
    /\ calls' = << >>
    /\ failed' = NoFailure
    /\ UNCHANGED <<consumer, endpoint_name, sample_rate, segments, last_score_time,
                   last_scored_text, now, pending, last_nonforced_at, scored_ok>>
    /\ History

Next ==
    \/ Tick
    \/ \E rate \in SampleRates, vosk \in VoskStates : FlagAudio_handle_start(rate, vosk)
    \/ \E accepted \in BOOLEAN, text \in Texts \cup {EmptyText} :
           FlagAudio_handle_audio_bytes(accepted, text)
    \/ \E text \in Texts \cup {EmptyText} : FlagAudio_handle_stop(text)
    \/ \E ok \in BOOLEAN : FlagAudio_score_return(ok)
    \/ \E rate \in SampleRates, vosk \in VoskStates : VoiceChat_start_stream(rate, vosk)
    \/ \E outcome \in {"final", "partial", "raise"}, text \in Texts \cup {EmptyText} :
           VoiceChat_handle_audio_chunk(outcome, text)
    \/ \E outcome \in {"final", "raise"}, text \in Texts \cup {EmptyText} :
           VoiceChat_stop_stream(outcome, text)
    \/ \E ok \in BOOLEAN : VoiceChat_score_return(ok)
    \/ \E kind \in TextKinds : FlagAudio_handle_text_message(kind)
    \/ \E kind \in TextKinds : VoiceChat_handle_text(kind)
    \/ ClientDisconnects
    \/ Disconnect

Spec == Init /\ [][Next]_vars

(***************************************************************************)
(* Steps and states the properties speak about                             *)
(***************************************************************************)

\* This step is the client going away: no handler runs in it.
ClientGoneStep == conn # "dropped" /\ conn' = "dropped"

\* This step is the step in which the handler of a `name` event starts.
HandlerStep(name) == pending = NoCall /\ now' = now /\ ~ClientGoneStep /\ op'.name = name

\* This step issues a scorer call; this step resumes the handler after one.
InvokeStep == pending = NoCall /\ pending' # NoCall
ReturnStep == pending # NoCall /\ pending' = NoCall

\* The latest event was a stop received with a Recognizer bound.
StopFromStreaming == op.name = "stop" /\ op.was_bound

\* What the handler of a stop has sent once it has run to its end: one `final` carrying the
\* joined segments, the trailing text being the last segment, then the close, and every
\* other message before them.
FinalThenClose ==
    LET n == Len(sent) IN
    /\ n >= 2
    /\ sent[n] = CloseMsg
    /\ sent[n - 1] = Msg("final", Join(segments), FALSE)
    /\ Count(sent, "final") = 1
    /\ Count(sent, "close") = 1
    /\ (op.text # EmptyText => segments # << >> /\ segments[Len(segments)] = op.text)

(***************************************************************************)
(* C1..C10: the session state machine                                      *)
(***************************************************************************)

\* C1: in a FlagAudioConsumer session a non-forced scorer invocation is made only if at
\* least score_every_seconds have passed since last_score_time and the joined transcript
\* differs from last_scored_text; so two successive non-forced invocations (of the whole
\* connection, hence of a session) are at least score_every_seconds apart, and none is
\* made for the transcript the session last scored successfully.
C1_NonForcedScoringThrottledAndDeduplicated ==
    [][(consumer = "FlagAudio" /\ InvokeStep /\ ~pending'.force) =>
          /\ pending'.text = Join(segments')
          /\ now - last_score_time >= ScoreInterval
          /\ pending'.text # last_scored_text
          /\ pending'.text # scored_ok
          /\ (last_nonforced_at >= 0 => now - last_nonforced_at >= ScoreInterval)]_vars

\* C1 witness: a second non-forced invocation of a session that has not been stopped, for
\* a transcript that differs from the one scored successfully before.
C1_Witness ==
    /\ consumer = "FlagAudio"
    /\ op.name = "audio"
    /\ conn = "open"
    /\ pending # NoCall
    /\ ~pending.force
    /\ scored_ok # EmptyText
    /\ last_scored_text = scored_ok
    /\ pending.at - last_score_time >= ScoreInterval

\* C2: after a successful start, the first non-empty finalized segment of the session is
\* scored at once, even when no time has passed since the start (the scorer being
\* configured).
C2_FirstSegmentScoredImmediately ==
    (/\ op.name = "audio"
     /\ op.kind = "final"
     /\ op.text # EmptyText
     /\ op.was_bound
     /\ segments = <<op.text>>
     /\ endpoint_name) => calls # << >>

\* C3: a stop received while Streaming, with a non-empty accumulated transcript (and the
\* scorer configured, the Recognizer's drain not failing), makes exactly one scorer
\* invocation, whose input is the joined transcript of all segments.
C3_StopScoresFullTranscriptOnce ==
    (/\ StopFromStreaming
     /\ op.kind # "raise"
     /\ Join(segments) # EmptyText
     /\ endpoint_name) => (Len(calls) = 1 /\ calls[1].text = Join(segments))

C6_StartOnlyFromIdle ==
    [][(HandlerStep("start") /\ recognizer # 0) =>
          /\ recognizer' = recognizer
          /\ segments' = segments
          /\ last_score_time' = last_score_time
          /\ last_scored_text' = last_scored_text]_vars

\* C7: a start with a sample rate <= 0, or one whose model or Recognizer cannot be built,
\* binds no Recognizer, sends no `started`, leaves the segments alone, and is fatal: an
\* `error` is sent and the connection is then closed.
C7_FailedStartIsFatal ==
    [][(HandlerStep("start") /\ op'.kind # "ok") =>
          /\ recognizer' = recognizer
          /\ segments' = segments
          /\ sent' = <<ErrorMsg, CloseMsg>>
          /\ conn' # "open"]_vars

\* C8: a stop received while Idle is not fatal: an `error` is sent, no `final` and no
\* score, the session state is unchanged and the connection stays as it was.
C8_StopWhileIdleNotFatal ==
    [][(HandlerStep("stop") /\ recognizer = 0) =>
          /\ sent' = <<ErrorMsg>>
          /\ conn' = conn
          /\ pending' = NoCall
          /\ UNCHANGED <<recognizer, segments, last_score_time, last_scored_text>>]_vars

\* C9: a partial text is forwarded as a `partial` message and causes no scorer
\* invocation: every invocation is made by the handler of a non-empty final segment or of
\* a stop.
C9_PartialNeverScores ==
    [][/\ (HandlerStep("audio") /\ op'.kind = "partial") =>
              /\ pending' = NoCall
              /\ (recognizer # 0 /\ op'.text # EmptyText =>
                     sent' # << >> /\ sent'[1] = Msg("partial", op'.text, FALSE))
       /\ InvokeStep =>
              \/ op'.name = "stop"
              \/ op'.name = "audio" /\ op'.kind = "final" /\ op'.text # EmptyText]_vars

AfterFailedCall ==
    /\ pending = NoCall
    /\ sent # << >>
    /\ sent[Len(sent)].type = "score_error"

\* C11: a scorer call that fails is reported as a `score_error` and does not end the
\* session: the Recognizer stays bound and the segments are kept, the connection is not
\* closed by it (a stop that was scoring goes on to its `final` and close), and the next
\* audio frame or stop is handled as in any Streaming session.
C11_FailedCallIsNotFatal ==
    [][/\ (ReturnStep /\ sent'[Len(sent) + 1].type = "score_error") =>
              /\ recognizer # 0
              /\ recognizer' = recognizer
              /\ segments' = segments
              /\ IF pending.after = "stop"
                 THEN FinalThenClose'
                 ELSE conn' = conn /\ Len(sent') = Len(sent) + 1
       /\ (AfterFailedCall /\ HandlerStep("audio")) =>
              /\ op'.was_bound
              /\ (op'.kind = "final" /\ op'.text # EmptyText) =>
                     /\ segments' = Append(segments, op'.text)
                     /\ sent'[1] = Msg("segment", op'.text, FALSE)
              /\ (op'.kind = "partial" /\ op'.text # EmptyText) =>
                     sent'[1] = Msg("partial", op'.text, FALSE)
       /\ (AfterFailedCall /\ HandlerStep("stop")) =>
              /\ op'.was_bound
              /\ (op'.kind = "raise" \/ pending' # NoCall \/ FinalThenClose')]_vars

\* C11 witness: after a call for the first segment failed, a second segment has been
\* appended and forwarded on the connection, which is still open.
C11_Witness ==
    /\ failed # NoFailure
    /\ op.name = "audio"
    /\ op.kind = "final"
    /\ Len(segments) = 2
    /\ failed.text = segments[1]
    /\ sent[1] = Msg("segment", segments[2], FALSE)
    /\ recognizer # 0
    /\ conn = "open"

\* C12: at most one scorer call of a session is outstanding at any time: a call is issued
\* only in a step that begins with none outstanding.
C12_OneOutstandingCall ==
    [][(pending' # NoCall /\ pending' # pending) => pending = NoCall]_vars

\* C12 witness: the call for a second segment is outstanding; the call for the first one
\* was issued and has returned before.
C12_Witness ==
    /\ consumer = "VoiceChat"
    /\ op.name = "audio"
    /\ Len(segments) = 2
    /\ pending # NoCall
    /\ pending.text = segments[2]

\* Some message the latest handler sent is a `partial`, a `segment` or a `score`.
SentTranscriptOrScore == \E i \in 1..Len(sent) : sent[i].type \in {"partial", "segment", "score"}

\* C14: an audio frame received with no Recognizer bound is answered with one `error` and
\* nothing else, changes no session state and leaves the connection as it was; and no
\* `partial`, `segment` or `score` is sent on a connection before a `started`.
C14_AudioBeforeStartRejected ==
    [][/\ (HandlerStep("audio") /\ recognizer = 0) =>
              /\ sent' = <<ErrorMsg>>
              /\ conn' = conn
              /\ pending' = NoCall
              /\ UNCHANGED <<recognizer, sample_rate, segments, last_score_time,
                             last_scored_text>>
       /\ (SentTranscriptOrScore' => started_sent')]_vars

\* C14 witness: a frame carrying a final text has been rejected on a connection that has
\* never been started.
C14_Witness ==
    /\ op.name = "audio"
    /\ op.kind = "final"
    /\ op.text # EmptyText
    /\ ~op.was_bound
    /\ ~started_sent
    /\ sent = <<ErrorMsg>>
    /\ segments = << >>
    /\ conn = "open"

\* C15: a text frame that is not JSON, or whose "type" is neither start nor stop, is
\* answered with exactly one `error`; the Recognizer, the segments and the dedup state
\* are unchanged and the connection is not closed.
C15_BadTextMessageNotFatal ==
    [][HandlerStep("text") =>
          /\ sent' = <<ErrorMsg>>
          /\ conn' = conn
          /\ UNCHANGED <<recognizer, segments, last_score_time, last_scored_text>>]_vars

\* C16: once a stop has been handled while Streaming the session is over (its Recognizer
\* is released): an audio frame that follows appends no segment, invokes no scorer and
\* has no `partial`, `segment` or `score` sent for it.
C16_StoppedIsTerminal ==
    [][(/\ StopFromStreaming
        /\ pending = NoCall
        /\ HandlerStep("audio")) =>
          /\ segments' = segments
          /\ pending' = NoCall
          /\ ~SentTranscriptOrScore']_vars

\* C17: when the client has gone while a scorer call was in flight, the returning call
\* sends nothing and changes no session state.
C17_LateResultDiscarded ==
    [][(ReturnStep /\ conn = "dropped") =>
          /\ sent' = sent
          /\ last_score_time' = last_score_time
          /\ last_scored_text' = last_scored_text]_vars

(***************************************************************************)
(* The HTTP stream registry: apps/voicechats/views.py                      *)
(*                                                                         *)
(* Each request thread serves one request at a time.  transcribe_chunk     *)
(* runs from its lookup of the stream to the end of its scoring call       *)
(* inside `with _STREAM_LOCK`; it is split at the scoring call, which it   *)
(* makes holding the lock.  finalize_stream takes the lock only to pop the *)
(* stream.  A stream not updated for _STREAM_TTL_SECONDS is stale, and the *)
(* next transcribe_chunk drops it.                                         *)
(***************************************************************************)

Done(t, status, text) == [requests[t] EXCEPT !.pc = "done", !.status = status, !.text = text]

\* _cleanup_streams(): the registry without its stale streams.
CleanedUp == [id \in StreamIds |-> IF STREAMS[id].stale THEN NoStream ELSE STREAMS[id]]

\* transcribe_chunk up to `with _STREAM_LOCK`: rate is the sample_rate parameter
\* ("not_int" when int() raises), body_ok iff the request body is not empty.
transcribe_chunk_begin(t, id, rate, body_ok) ==
    /\ requests[t].pc \in {"idle", "done"}
    /\ LET r == [view |-> "transcribe_chunk", stream_id |-> id, pc |-> "lock", status |-> 0,
                 text |-> EmptyText]
       IN requests' = [requests EXCEPT ![t] =
              IF rate = "not_int" \/ ~body_ok THEN [r EXCEPT !.pc = "done", !.status = 400]
              ELSE r]
    /\ UNCHANGED <<STREAMS, STREAM_LOCK, wsVars, clsVars, qryVars, valVars>>

\* transcribe_chunk inside the lock, up to the scoring call.  new_ok iff load_model and
\* create_recognizer succeed should the stream be new; outcome and text are what
\* accept_audio does with the chunk.
transcribe_chunk_locked(t, new_ok, outcome, text) ==
    /\ requests[t].view = "transcribe_chunk"
    /\ requests[t].pc = "lock"
    /\ STREAM_LOCK = NoThread
    /\ LET id == requests[t].stream_id
           cleaned == CleanedUp
           state == IF cleaned[id].present THEN [cleaned[id] EXCEPT !.stale = FALSE]
                    ELSE [NoStream EXCEPT !.present = TRUE]
       IN  IF ~cleaned[id].present /\ ~new_ok
           THEN /\ STREAMS' = cleaned
                /\ requests' = [requests EXCEPT ![t] = Done(t, 500, EmptyText)]
                /\ STREAM_LOCK' = NoThread
           ELSE IF outcome = "raise"
           THEN /\ STREAMS' = [cleaned EXCEPT ![id] = state]
                /\ requests' = [requests EXCEPT ![t] = Done(t, 500, EmptyText)]
                /\ STREAM_LOCK' = NoThread
           ELSE IF outcome = "final" /\ text # EmptyText
           THEN /\ Len(state.segments) < MaxStreamSegs
                /\ STREAMS' = [cleaned EXCEPT ![id] =
                       [state EXCEPT !.segment_counter = @ + 1,
                                     !.segments = Appended(@, text)]]
                /\ requests' = [requests EXCEPT ![t] =
                       [@ EXCEPT !.pc = "scoring", !.text = text]]
                /\ STREAM_LOCK' = t
           ELSE /\ STREAMS' = [cleaned EXCEPT ![id] = state]
                /\ requests' = [requests EXCEPT ![t] = Done(t, 200, EmptyText)]
                /\ STREAM_LOCK' = NoThread
    /\ UNCHANGED <<wsVars, clsVars, qryVars, valVars>>

\* transcribe_chunk from the return of call_databricks_inference (ok iff it did not
\* raise) to the end of the `with` block and the response.
transcribe_chunk_score_return(t, ok) ==
    /\ requests[t].view = "transcribe_chunk"
    /\ requests[t].pc = "scoring"
    /\ STREAM_LOCK' = NoThread
    /\ requests' = [requests EXCEPT ![t] = Done(t, 200, requests[t].text)]
    /\ UNCHANGED <<STREAMS, wsVars, clsVars, qryVars, valVars>>

\* A body of finalize_stream that is JSON and not an object, such as [] or 0: the payload
\* has no get(), the AttributeError is not caught, and the request is answered with 500.
NotAnObject == "not_an_object"

\* finalize_stream up to `with _STREAM_LOCK`: id is the payload's stream_id, "" when it
\* is missing or the body is empty or does not parse.
finalize_stream_begin(t, id) ==
    /\ requests[t].pc \in {"idle", "done"}
    /\ LET r == [view |-> "finalize_stream", stream_id |-> id, pc |-> "lock", status |-> 0,
                 text |-> EmptyText]
       IN requests' = [requests EXCEPT ![t] =
              IF id = NotAnObject THEN [r EXCEPT !.stream_id = "", !.pc = "done", !.status = 500]
              ELSE IF id = "" THEN [r EXCEPT !.pc = "done", !.status = 400]
              ELSE r]
    /\ UNCHANGED <<STREAMS, STREAM_LOCK, wsVars, clsVars, qryVars, valVars>>

\* finalize_stream_locked with a fault: the stream is looked up and left in the registry.
finalize_stream_not_popped(t, outcome, tail) ==
    /\ requests[t].view = "finalize_stream"
    /\ requests[t].pc = "lock"
    /\ STREAM_LOCK = NoThread
    /\ LET state == STREAMS[requests[t].stream_id]
           segs == IF tail # EmptyText THEN Appended(state.segments, tail) ELSE state.segments
       IN  requests' = [requests EXCEPT ![t] =
               IF ~state.present THEN Done(t, 404, EmptyText)
               ELSE IF outcome = "raise" THEN Done(t, 500, EmptyText)
               ELSE Done(t, 200, Join(segs))]
    /\ UNCHANGED <<STREAMS, STREAM_LOCK, wsVars, clsVars, qryVars, valVars>>

\* finalize_stream from the pop of the stream, under the lock, to the response.
\* outcome = "raise": FinalResult() (or parsing its payload) raises; else tail is its text.
finalize_stream_locked(t, outcome, tail) ==
    /\ requests[t].view = "finalize_stream"
    /\ requests[t].pc = "lock"
    /\ STREAM_LOCK = NoThread
    /\ LET id == requests[t].stream_id
           state == STREAMS[id]
           segs == IF tail # EmptyText THEN Appended(state.segments, tail) ELSE state.segments
       IN  /\ STREAMS' = [STREAMS EXCEPT ![id] = NoStream]
           /\ requests' = [requests EXCEPT ![t] =
                  IF ~state.present THEN Done(t, 404, EmptyText)
                  ELSE IF outcome = "raise" THEN Done(t, 500, EmptyText)
                  ELSE Done(t, 200, Join(segs))]
    /\ UNCHANGED <<STREAM_LOCK, wsVars, clsVars, qryVars, valVars>>

\* More than _STREAM_TTL_SECONDS pass without an update of stream id.
StreamExpires(id) ==
    /\ STREAMS[id].present
    /\ ~STREAMS[id].stale
    /\ STREAMS' = [STREAMS EXCEPT ![id].stale = TRUE]
    /\ UNCHANGED <<STREAM_LOCK, requests, wsVars, clsVars, qryVars, valVars>>

HttpInit ==
    WsInit /\ consumer = "VoiceChat" /\ HttpIdle /\ ClassifierIdle /\ QueryIdle /\ ValidationIdle

HttpNext ==
    \/ \E t \in RequestThreads, id \in StreamIds, rate \in {"not_int", "int"}, body_ok \in BOOLEAN :
           transcribe_chunk_begin(t, id, rate, body_ok)
    \/ \E t \in RequestThreads, new_ok \in BOOLEAN, outcome \in {"final", "partial", "raise"},
          text \in {EmptyText, <<"a">>} :
           transcribe_chunk_locked(t, new_ok, outcome, text)
    \/ \E t \in RequestThreads, ok \in BOOLEAN : transcribe_chunk_score_return(t, ok)
    \/ \E t \in RequestThreads, id \in StreamIds \cup {"", NotAnObject} :
           finalize_stream_begin(t, id)
    \/ \E t \in RequestThreads, outcome \in {"final", "raise"}, tail \in {EmptyText, <<"a">>} :
           finalize_stream_locked(t, outcome, tail)
    \/ \E id \in StreamIds : StreamExpires(id)

HttpSpec == HttpInit /\ [][HttpNext]_vars

\* The requests for one stream_id: any number of transcribe_chunk and finalize_stream
\* requests for it, interleaved over the request threads, and its expiry.
TheStream == "A"

OneStreamNext ==
    \/ \E t \in RequestThreads, body_ok \in BOOLEAN :
           transcribe_chunk_begin(t, TheStream, "int", body_ok)
    \/ \E t \in RequestThreads, new_ok \in BOOLEAN, outcome \in {"final", "partial", "raise"},
          text \in {EmptyText, <<"a">>} :
           transcribe_chunk_locked(t, new_ok, outcome, text)
    \/ \E t \in RequestThreads, ok \in BOOLEAN : transcribe_chunk_score_return(t, ok)
    \/ \E t \in RequestThreads : finalize_stream_begin(t, TheStream)
    \/ \E t \in RequestThreads, outcome \in {"final", "raise"}, tail \in {EmptyText, <<"a">>} :
           finalize_stream_locked(t, outcome, tail)
    \/ StreamExpires(TheStream)

OneStreamSpec == HttpInit /\ [][OneStreamNext]_vars

(***************************************************************************)
(* C13: sessions do not block one another                                  *)
(***************************************************************************)

\* C13: a scoring call in progress for one stream does not block a request for another:
\* while it has not returned, a request for a different stream that has reached the
\* registry can enter it.
C13_ScoringDoesNotBlockOtherStreams ==
    \A t1, t2 \in RequestThreads :
        (/\ requests[t1].pc = "scoring"
         /\ requests[t2].pc = "lock"
         /\ requests[t2].stream_id # requests[t1].stream_id) => STREAM_LOCK = NoThread

(***************************************************************************)
(* The local classifier: apps/voicechats/flagging/classifier.py            *)
(*                                                                         *)
(* A string is a sequence of one-character strings; offsets count from 0   *)
(* as in the code, so the character at offset p of s is s[p + 1].  A match *)
(* is [term, start, end, severity] with start and end offsets into the     *)
(* stripped transcript.                                                    *)
(***************************************************************************)

\* The characters of the inputs: str.isalnum() holds of the letters, "T" and "U" are upper
\* case, and the others are white space or punctuation.
Alnum == {"a", "e", "h", "l", "m", "r", "s", "t", "u", "y", "T", "U"}
IsSpace(ch) == ch = " "
\* Characters outside ASCII are written by their code points.  U+2019 is the curly
\* apostrophe.  U+0130 is the capital I with a dot, the character whose lower() is two
\* characters: an i and the combining dot U+0307.
CurlyApostrophe == "U+2019"
DottedCapitalI == "U+0130"
LoweredDottedCapitalI == "U+0069 U+0307"
Lower(ch) ==
    CASE ch = "T" -> "t" [] ch = "U" -> "u" [] ch = DottedCapitalI -> LoweredDottedCapitalI
      [] OTHER -> ch
\* _NON_ALNUM_RE.match(lowered), for a lowered that is not alphanumeric: [^a-z0-9]+ has to
\* match at the first character, and the lowered dotted I begins with an i.
NonAlnumMatch(lowered) == lowered # LoweredDottedCapitalI
\* \w of the patterns and of _WORD_RE
IsWordChar(ch) == ch \in Alnum

MinOf(S) == CHOOSE x \in S : \A y \in S : x <= y

\* str.strip()
RECURSIVE Strip(_)
Strip(str) ==
    IF str = << >> THEN str
    ELSE IF IsSpace(Head(str)) THEN Strip(Tail(str))
    ELSE IF IsSpace(str[Len(str)]) THEN Strip(SubSeq(str, 1, Len(str) - 1))
    ELSE str

HasSpace(str) == \E i \in 1..Len(str) : str[i] = " "

\* NormalizeFrom with a fault: a separator that is not white space is put into the output
\* as a space at once, so a run of them is not collapsed.
RECURSIVE NormalizeFromRunsKept(_, _, _, _, _)
NormalizeFromRunsKept(str, idx, pending_space, saw_content, acc) ==
    IF idx > Len(str) THEN acc
    ELSE LET lowered == Lower(str[idx]) IN
         IF lowered \in Alnum
         THEN LET spaced == pending_space /\ saw_content IN
              NormalizeFromRunsKept(str, idx + 1, FALSE, TRUE,
                  [chars |-> IF spaced THEN acc.chars \o <<" ", lowered>>
                             ELSE Append(acc.chars, lowered),
                   index_map |-> IF spaced THEN acc.index_map \o <<idx - 1, idx - 1>>
                                 ELSE Append(acc.index_map, idx - 1)])
         ELSE IF IsSpace(lowered)
         THEN NormalizeFromRunsKept(str, idx + 1, IF saw_content THEN TRUE ELSE pending_space,
                                    saw_content, acc)
         ELSE IF NonAlnumMatch(lowered) /\ saw_content
         THEN NormalizeFromRunsKept(str, idx + 1, pending_space, saw_content,
                  [chars |-> Append(acc.chars, " "),
                   index_map |-> Append(acc.index_map, idx - 1)])
         ELSE NormalizeFromRunsKept(str, idx + 1, pending_space, saw_content, acc)

\* NormalizeFrom with a fault: no entry of index_map is written for the space put
\* between two tokens.
RECURSIVE NormalizeFromSpaceUnmapped(_, _, _, _, _)
NormalizeFromSpaceUnmapped(str, idx, pending_space, saw_content, acc) ==
    IF idx > Len(str) THEN acc
    ELSE LET lowered == Lower(str[idx]) IN
         IF lowered \in Alnum
         THEN LET spaced == pending_space /\ saw_content IN
              NormalizeFromSpaceUnmapped(str, idx + 1, FALSE, TRUE,
                  [chars |-> IF spaced THEN acc.chars \o <<" ", lowered>>
                             ELSE Append(acc.chars, lowered),
                   index_map |-> Append(acc.index_map, idx - 1)])
         ELSE IF IsSpace(lowered) \/ NonAlnumMatch(lowered)
         THEN NormalizeFromSpaceUnmapped(str, idx + 1,
                                         IF saw_content THEN TRUE ELSE pending_space,
                                         saw_content, acc)
         ELSE NormalizeFromSpaceUnmapped(str, idx + 1, pending_space, saw_content, acc)

\* The loop of normalize_text from offset idx - 1 on; acc holds normalized_chars and
\* index_map.  A character that is not alphanumeric, not white space and not matched by
\* _NON_ALNUM_RE is passed over.
RECURSIVE NormalizeFrom(_, _, _, _, _)
NormalizeFrom(str, idx, pending_space, saw_content, acc) ==
    IF idx > Len(str) THEN acc
    ELSE LET lowered == Lower(str[idx]) IN
         IF lowered \in Alnum
         THEN LET spaced == pending_space /\ saw_content IN
              NormalizeFrom(str, idx + 1, FALSE, TRUE,
                  [chars |-> IF spaced THEN acc.chars \o <<" ", lowered>>
                             ELSE Append(acc.chars, lowered),
                   index_map |-> IF spaced THEN acc.index_map \o <<idx - 1, idx - 1>>
                                 ELSE Append(acc.index_map, idx - 1)])
         ELSE IF IsSpace(lowered) \/ NonAlnumMatch(lowered)
         THEN NormalizeFrom(str, idx + 1, IF saw_content THEN TRUE ELSE pending_space,
                            saw_content, acc)
         ELSE NormalizeFrom(str, idx + 1, pending_space, saw_content, acc)

normalize_text(str) ==
    LET acc == NormalizeFrom(str, 1, FALSE, FALSE, [chars |-> << >>, index_map |-> << >>])
        normalized == Strip(acc.chars)
    IN  IF normalized = << >> THEN [normalized |-> << >>, index_map |-> << >>]
        ELSE [normalized |-> normalized,
              index_map |-> SubSeq(acc.index_map, 1,
                                   MinOf({Len(normalized), Len(acc.index_map)}))]

\* EditScan with a fault: at a mismatch both offsets move on, whatever the lengths.
RECURSIVE EditScanSubstitutionOnly(_, _, _, _, _)
EditScanSubstitutionOnly(left, right, i, j, edits) ==
    IF i < Len(left) /\ j < Len(right)
    THEN IF left[i + 1] = right[j + 1]
         THEN EditScanSubstitutionOnly(left, right, i + 1, j + 1, edits)
         ELSE IF edits + 1 > 1 THEN FALSE
         ELSE EditScanSubstitutionOnly(left, right, i + 1, j + 1, edits + 1)
    ELSE edits + (IF i < Len(left) \/ j < Len(right) THEN 1 ELSE 0) <= 1

\* The loop of _edit_distance_at_most_one, i and j being its offsets.
RECURSIVE EditScan(_, _, _, _, _)
EditScan(left, right, i, j, edits) ==
    IF i < Len(left) /\ j < Len(right)
    THEN IF left[i + 1] = right[j + 1] THEN EditScan(left, right, i + 1, j + 1, edits)
         ELSE IF edits + 1 > 1 THEN FALSE
         ELSE IF Len(left) > Len(right) THEN EditScan(left, right, i + 1, j, edits + 1)
         ELSE IF Len(right) > Len(left) THEN EditScan(left, right, i, j + 1, edits + 1)
         ELSE EditScan(left, right, i + 1, j + 1, edits + 1)
    ELSE edits + (IF i < Len(left) \/ j < Len(right) THEN 1 ELSE 0) <= 1

edit_distance_at_most_one(left, right) ==
    IF left = right THEN TRUE
    ELSE IF Len(left) - Len(right) > 1 \/ Len(right) - Len(left) > 1 THEN FALSE
    ELSE EditScan(left, right, 0, 0, 0)

\* \b at offset p of str: exactly one of the characters around p is a word character.
WordBoundary(str, p) ==
    (p > 0 /\ IsWordChar(str[p])) # (p < Len(str) /\ IsWordChar(str[p + 1]))

\* MatchAt with a fault: the pattern is not anchored at word boundaries.
MatchAtUnanchored(term, str, p) ==
    /\ p + Len(term) <= Len(str)
    /\ SubSeq(str, p + 1, p + Len(term)) = term

\* The pattern \b<term>\b of _compile_patterns matches str at offset p.
MatchAt(term, str, p) ==
    /\ p + Len(term) <= Len(str)
    /\ SubSeq(str, p + 1, p + Len(term)) = term
    /\ WordBoundary(str, p)
    /\ WordBoundary(str, p + Len(term))

\* pattern.finditer(str) from offset from: the start offsets of the matches, each found
\* leftmost past the end of the one before.
RECURSIVE FindIter(_, _, _)
FindIter(term, str, from) ==
    LET starts == {p \in from..(Len(str) - Len(term)) : MatchAt(term, str, p)} IN
    IF starts = {} THEN << >>
    ELSE <<MinOf(starts)>> \o FindIter(term, str, MinOf(starts) + Len(term))

\* pattern.search(str) finds a match.
Search(term, str) == FindIter(term, str, 0) # << >>

\* _WORD_RE.finditer(str) from offset from: the maximal runs of word characters, each
\* [start_n, end_n].
RECURSIVE Words(_, _)
Words(str, from) ==
    LET starts == {p \in from..(Len(str) - 1) : IsWordChar(str[p + 1])} IN
    IF starts = {} THEN << >>
    ELSE LET b == MinOf(starts)
             ends == {q \in (b + 1)..Len(str) : q = Len(str) \/ ~IsWordChar(str[q + 1])}
             e == MinOf(ends)
         IN  <<[start_n |-> b, end_n |-> e]>> \o Words(str, e)

\* _compile_patterns(_FLAG_TERMS): one pattern per term, in the order of the lexicon.
FLAG_PATTERNS == FLAG_TERMS

HIGH_SEVERITY_SINGLE_WORD_TERMS ==
    SelectSeq(FLAG_PATTERNS, LAMBDA entry : ~HasSpace(entry.term) /\ entry.severity >= 3)

Hit(item, start_n, end_n) ==
    [term |-> item.term, severity |-> item.severity, start_n |-> start_n, end_n |-> end_n]

\* The body both collectors run for each hit: the normalized span is translated through
\* index_map, a hit outside the map or with a key already seen is dropped, and the others
\* are appended in order.
RECURSIVE AcceptHits(_, _, _)
AcceptHits(hits, index_map, acc) ==
    IF hits = << >> THEN acc
    ELSE LET hit == Head(hits) IN
         IF hit.start_n >= Len(index_map) \/ hit.end_n - 1 >= Len(index_map)
         THEN AcceptHits(Tail(hits), index_map, acc)
         ELSE LET start_o == index_map[hit.start_n + 1]
                  end_o == index_map[hit.end_n] + 1
                  key == <<start_o, end_o, hit.term>>
              IN  IF key \in acc.seen THEN AcceptHits(Tail(hits), index_map, acc)
                  ELSE AcceptHits(Tail(hits), index_map,
                           [matches |-> Append(acc.matches,
                                [term |-> hit.term, start |-> start_o, end |-> end_o,
                                 severity |-> hit.severity]),
                            seen |-> acc.seen \cup {key}])

\* item["pattern"].finditer(normalized_text)
PatternHits(item, normalized) ==
    LET starts == FindIter(item.term, normalized, 0) IN
    [k \in 1..Len(starts) |-> Hit(item, starts[k], starts[k] + Len(item.term))]

RECURSIVE ExactHits(_, _)
ExactHits(items, normalized) ==
    IF items = << >> THEN << >>
    ELSE PatternHits(Head(items), normalized) \o ExactHits(Tail(items), normalized)

\* _collect_exact_matches: the matches and the set seen.
collect_exact_matches(normalized, index_map) ==
    AcceptHits(ExactHits(FLAG_PATTERNS, normalized), index_map, [matches |-> << >>, seen |-> {}])

\* FuzzyCandidates with a fault: a term is tried although the text holds an exact match of it.
FuzzyCandidatesDespiteExact(item, normalized) ==
    IF Len(item.term) < 5 THEN << >>
    ELSE LET near == SelectSeq(Words(normalized, 0), LAMBDA w :
                 edit_distance_at_most_one(SubSeq(normalized, w.start_n + 1, w.end_n), item.term))
         IN  [k \in 1..Len(near) |-> Hit(item, near[k].start_n, near[k].end_n)]

\* One round of the outer loop of _collect_fuzzy_matches: the words of the text within one
\* edit of the term, for a term of 5 characters or more that the text does not hold.
FuzzyCandidates(item, normalized) ==
    IF Len(item.term) < 5 THEN << >>
    ELSE IF Search(item.term, normalized) THEN << >>
    ELSE LET near == SelectSeq(Words(normalized, 0), LAMBDA w :
                 edit_distance_at_most_one(SubSeq(normalized, w.start_n + 1, w.end_n), item.term))
         IN  [k \in 1..Len(near) |-> Hit(item, near[k].start_n, near[k].end_n)]

RECURSIVE FuzzyHits(_, _)
FuzzyHits(items, normalized) ==
    IF items = << >> THEN << >>
    ELSE FuzzyCandidates(Head(items), normalized) \o FuzzyHits(Tail(items), normalized)

\* _collect_fuzzy_matches: its own list of matches; it goes on adding to the set seen.
collect_fuzzy_matches(normalized, index_map, seen) ==
    IF normalized = << >> THEN << >>
    ELSE AcceptHits(FuzzyHits(HIGH_SEVERITY_SINGLE_WORD_TERMS, normalized), index_map,
                    [matches |-> << >>, seen |-> seen]).matches

\* matches.sort(key=(start, end)): a stable sort.
RECURSIVE InsertMatch(_, _)
InsertMatch(sorted, m) ==
    IF sorted = << >> THEN <<m>>
    ELSE IF m.start < Head(sorted).start \/ (m.start = Head(sorted).start /\ m.end < Head(sorted).end)
    THEN <<m>> \o sorted
    ELSE <<Head(sorted)>> \o InsertMatch(Tail(sorted), m)

RECURSIVE SortMatches(_)
SortMatches(ms) ==
    IF ms = << >> THEN << >>
    ELSE InsertMatch(SortMatches(SubSeq(ms, 1, Len(ms) - 1)), ms[Len(ms)])

\* TotalSeverity with a fault: every match counts 1, whatever its severity.
TotalSeverityCountingMatches(ms) == Len(ms)

RECURSIVE TotalSeverity(_)
TotalSeverity(ms) == IF ms = << >> THEN 0 ELSE Head(ms).severity + TotalSeverity(Tail(ms))

\* classify_text(text).  score_0_1 is min(1.0, total_severity / 10.0), kept in tenths.
\* normalized, index_map and fuzzy are not returned by the code: they are what
\* normalize_text gave the matchers and what _collect_fuzzy_matches added.
classify_text(str) ==
    LET transcript == Strip(str) IN
    IF transcript = << >>
    THEN [called |-> TRUE, transcript |-> transcript, flagged |-> FALSE, label |-> "ok",
          score_tenths |-> 0, matches |-> << >>, normalized |-> << >>,
          index_map |-> << >>, fuzzy |-> << >>]
    ELSE LET n == normalize_text(transcript)
             exact == collect_exact_matches(n.normalized, n.index_map)
             fuzzy == collect_fuzzy_matches(n.normalized, n.index_map, exact.seen)
             matches == SortMatches(exact.matches \o fuzzy)
             total_severity == TotalSeverity(matches)
         IN  [called |-> TRUE, transcript |-> transcript, flagged |-> total_severity > 0,
              label |-> IF total_severity > 0 THEN "flag" ELSE "ok",
              score_tenths |-> IF total_severity > 10 THEN 10 ELSE total_severity,
              matches |-> matches, normalized |-> n.normalized,
              index_map |-> n.index_map, fuzzy |-> fuzzy]

\* str.lower() of a string
LowerStr(str) == [i \in 1..Len(str) |-> Lower(str[i])]

\* The values a "severity" of flag_terms.json takes in the inputs: a JSON integer, a JSON
\* number with a fraction (kept in tenths), a JSON string, null, or no such key.
IntSeverity(n) == [kind |-> "int", value |-> n]
FloatSeverity(tenths) == [kind |-> "float", value |-> tenths]
StrSeverity(str) == [kind |-> "str", value |-> str]
NullSeverity == [kind |-> "null", value |-> 0]
MissingSeverity == [kind |-> "missing", value |-> 0]

DigitValue(ch) ==
    CASE ch = "0" -> 0 [] ch = "1" -> 1 [] ch = "2" -> 2 [] ch = "3" -> 3 [] ch = "4" -> 4
      [] ch = "5" -> 5 [] ch = "6" -> 6 [] ch = "7" -> 7 [] ch = "8" -> 8 [] ch = "9" -> 9
      [] OTHER -> -1

RECURSIVE DigitsValue(_, _)
DigitsValue(str, acc) ==
    IF str = << >> THEN acc ELSE DigitsValue(Tail(str), 10 * acc + DigitValue(Head(str)))

\* int(severity_raw) of load_flag_terms: the integer, or no integer where the code gets a
\* TypeError or a ValueError.  A number with a fraction is cut toward zero; a string is
\* read as decimal digits.
IntOf(severity_raw) ==
    CASE severity_raw.kind = "int" -> [ok |-> TRUE, value |-> severity_raw.value]
      [] severity_raw.kind = "float" ->
            [ok |-> TRUE,
             value |-> IF severity_raw.value >= 0 THEN severity_raw.value \div 10
                       ELSE -((-severity_raw.value) \div 10)]
      [] severity_raw.kind = "str" ->
            IF /\ severity_raw.value # << >>
               /\ \A i \in 1..Len(severity_raw.value) : DigitValue(severity_raw.value[i]) >= 0
            THEN [ok |-> TRUE, value |-> DigitsValue(severity_raw.value, 0)]
            ELSE [ok |-> FALSE, value |-> 0]
      [] OTHER -> [ok |-> FALSE, value |-> 0]

\* The severity load_flag_terms stores: item.get("severity", 1), then max(1, int(...)),
\* and 1 where int() raises.
FlagTermSeverity(severity_raw) ==
    IF severity_raw.kind = "missing" THEN 1
    ELSE LET n == IntOf(severity_raw) IN
         IF ~n.ok THEN 1 ELSE IF n.value < 1 THEN 1 ELSE n.value

\* load_flag_terms(path), payload being the list of objects the file holds: an item with
\* an empty term, or whose term normalizes to nothing, is left out.
RECURSIVE load_flag_terms(_)
load_flag_terms(payload) ==
    IF payload = << >> THEN << >>
    ELSE LET item == Head(payload)
             stripped == LowerStr(Strip(item.term))
             normalized_term == normalize_text(stripped).normalized
         IN  IF stripped = << >> \/ normalized_term = << >>
             THEN load_flag_terms(Tail(payload))
             ELSE <<[term |-> normalized_term,
                     severity |-> FlagTermSeverity(item.severity)]>>
                  \o load_flag_terms(Tail(payload))

\* The inputs: files of up to MaxTerms items, and texts of up to MaxTokens tokens.
useless == <<"u", "s", "e", "l", "e", "s", "s">>
trash == <<"t", "r", "a", "s", "h">>
term == <<"t", "e", "r", "m">>
RawFlagTermPool ==
    {[term |-> <<"U">> \o Tail(useless) \o <<",", " ">> \o trash, severity |-> IntSeverity(2)],
     [term |-> trash, severity |-> IntSeverity(7)],
     [term |-> <<" ">> \o trash, severity |-> IntSeverity(0)],
     [term |-> useless, severity |-> FloatSeverity(37)],
     [term |-> term, severity |-> StrSeverity(<<"3">>)],
     [term |-> <<",">>, severity |-> MissingSeverity]}
RawLexicons ==
    {lex \in UNION {[1..n -> RawFlagTermPool] : n \in 1..MaxTerms} :
        \A i, j \in 1..Len(lex) : i # j => lex[i] # lex[j]}
\* what the module holds after load_flag_terms has read such a file
Lexicons == {load_flag_terms(payload) : payload \in RawLexicons}
Tokens ==
    {useless, trash, <<"u", "s", "e", "l", "s", "s">>, <<"t", "r", "u", "s", "h">>,
     <<"T", "r", "a", "s", "h">>, <<"t", "e", "r", "m", "s">>, trash \o <<"y">>}
Separators == {<<" ">>, <<",", " ">>}
RECURSIVE TextsOf(_)
TextsOf(n) ==
    IF n = 1 THEN Tokens
    ELSE {t \o sep \o tok : t \in TextsOf(n - 1), sep \in Separators, tok \in Tokens}
InputTexts == {<< >>, <<" ">>} \cup UNION {TextsOf(n) : n \in 1..MaxTokens}

\* The module is loaded with some lexicon, and classify_text is about to be called.
ClassifierInit ==
    /\ WsInit
    /\ consumer = "VoiceChat"
    /\ HttpIdle
    /\ FLAG_TERMS \in Lexicons
    /\ input_text \in InputTexts
    /\ result = NoResult
    /\ QueryIdle
    /\ ValidationIdle

\* The call of classify_text(input_text) returns.
Classify ==
    /\ ~result.called
    /\ result' = classify_text(input_text)
    /\ UNCHANGED <<FLAG_TERMS, input_text, wsVars, httpVars, qryVars, valVars>>

ClassifierNext == Classify

ClassifierSpec == ClassifierInit /\ [][ClassifierNext]_vars

\* normalize_text on its own.  The texts are all strings of up to MaxChars characters
\* over a letter, a capital, the capital whose lower() is two characters, white space,
\* a comma and two apostrophes; the lexicons hold a word, a phrase and a word long
\* enough for the fuzzy pass.
Chars == {"a", "T", DottedCapitalI, " ", ",", "'", CurlyApostrophe}
CharTexts == UNION {[1..n -> Chars] : n \in 0..MaxChars}
CharLexicons ==
    {load_flag_terms(payload) : payload \in
        {<<[term |-> <<"a">>, severity |-> IntSeverity(1)]>>,
         <<[term |-> <<"T", ",", "a">>, severity |-> IntSeverity(2)],
           [term |-> <<"a">>, severity |-> NullSeverity]>>,
         <<[term |-> <<"t", "a", "t", "a", "t">>, severity |-> IntSeverity(3)]>>}}

NormalizeInit ==
    /\ WsInit
    /\ consumer = "VoiceChat"
    /\ HttpIdle
    /\ FLAG_TERMS \in CharLexicons
    /\ input_text \in CharTexts
    /\ result = NoResult
    /\ QueryIdle
    /\ ValidationIdle

\* The call of normalize_text(input_text) returns.
Normalize ==
    /\ ~result.called
    /\ result' = [called |-> TRUE, text |-> input_text,
                  normalized |-> normalize_text(input_text).normalized,
                  index_map |-> normalize_text(input_text).index_map]
    /\ UNCHANGED <<FLAG_TERMS, input_text, wsVars, httpVars, qryVars, valVars>>

NormalizeNext == Normalize \/ Classify

NormalizeSpec == NormalizeInit /\ [][NormalizeNext]_vars

\* _edit_distance_at_most_one on its own: the arguments are all pairs of strings of up to
\* MaxEditLen characters over two letters, and the pair of the fuzzy example.
uselss == <<"u", "s", "e", "l", "s", "s">>
EditStrings == UNION {[1..n -> {"s", "e"}] : n \in 0..MaxEditLen}
EditPairs == (EditStrings \X EditStrings) \cup {<<uselss, useless>>, <<useless, uselss>>}

EditInit ==
    /\ WsInit
    /\ consumer = "VoiceChat"
    /\ HttpIdle
    /\ QueryIdle
    /\ ValidationIdle
    /\ FLAG_TERMS = << >>
    /\ input_text \in EditPairs
    /\ result = NoResult

\* The call of _edit_distance_at_most_one(left, right) returns.
EditDistance ==
    /\ ~result.called
    /\ result' = [called |-> TRUE, left |-> input_text[1], right |-> input_text[2],
                  value |-> edit_distance_at_most_one(input_text[1], input_text[2])]
    /\ UNCHANGED <<FLAG_TERMS, input_text, wsVars, httpVars, qryVars, valVars>>

EditNext == EditDistance

EditSpec == EditInit /\ [][EditNext]_vars

(***************************************************************************)
(* normalize_databricks_output and the score message (apps/voicechats)     *)
(***************************************************************************)

\* JSON values.  A number is held in ten-thousandths (0.7 is 7000), a string as its
\* characters, an object as its entries in insertion order.  A Python bool is an int:
\* True has num 10000.
Number(n) == [kind |-> "number", num |-> n, str |-> << >>, items |-> << >>]
String(chars) == [kind |-> "string", num |-> 0, str |-> chars, items |-> << >>]
Boolean(b) == [kind |-> "bool", num |-> IF b THEN 10000 ELSE 0, str |-> << >>, items |-> << >>]
Null == [kind |-> "null", num |-> 0, str |-> << >>, items |-> << >>]
Dict(entries) == [kind |-> "dict", num |-> 0, str |-> << >>, items |-> entries]
Entry(k, v) == [key |-> k, value |-> v]

\* isinstance(value, (int, float)), which a bool passes
IsNumeric(value) == value.kind \in {"number", "bool"}

\* dict.get(key)
RECURSIVE Get(_, _)
Get(entries, key) ==
    IF entries = << >> THEN Null
    ELSE IF Head(entries).key = key THEN Head(entries).value
    ELSE Get(Tail(entries), key)

\* the first value under one of the keys, in the order of the keys, that passes the
\* isinstance test of the loop; Null if there is none
RECURSIVE FirstUnderKeys(_, _, _)
FirstUnderKeys(entries, keys, numeric) ==
    IF keys = << >> THEN Null
    ELSE LET value == Get(entries, Head(keys))
         IN IF (numeric /\ IsNumeric(value)) \/ (~numeric /\ value.kind = "string")
            THEN value
            ELSE FirstUnderKeys(entries, Tail(keys), numeric)

\* _extract_field for a path without dots
extract_field(payload, field_path) ==
    IF field_path = "" THEN Null
    ELSE IF payload.kind = "dict" THEN Get(payload.items, field_path)
    ELSE Null

\* _find_first_numeric; the float it returns, or Null for None
RECURSIVE find_first_numeric(_)
RECURSIVE FirstNumericOf(_)
find_first_numeric(payload) ==
    IF IsNumeric(payload) THEN Number(payload.num)
    ELSE IF payload.kind = "dict"
    THEN LET value == FirstUnderKeys(payload.items,
                          <<"score", "probability", "confidence", "toxicity", "prediction">>,
                          TRUE)
         IN IF value # Null THEN Number(value.num) ELSE FirstNumericOf(payload.items)
    ELSE Null

\* its loop over payload.values()
FirstNumericOf(entries) ==
    IF entries = << >> THEN Null
    ELSE LET found == find_first_numeric(Head(entries).value)
         IN IF found # Null THEN found ELSE FirstNumericOf(Tail(entries))

\* _find_first_label
RECURSIVE find_first_label(_)
RECURSIVE FirstLabelOf(_)
find_first_label(payload) ==
    IF payload.kind = "string" THEN payload
    ELSE IF payload.kind = "dict"
    THEN LET value == FirstUnderKeys(payload.items,
                          <<"label", "class", "prediction", "category">>, FALSE)
         IN IF value # Null THEN value ELSE FirstLabelOf(payload.items)
    ELSE Null

\* its loop over payload.values(): an empty string found is passed over
FirstLabelOf(entries) ==
    IF entries = << >> THEN Null
    ELSE LET found == find_first_label(Head(entries).value)
         IN IF found # Null /\ found.str # << >> THEN found ELSE FirstLabelOf(Tail(entries))

\* _clamp01
clamp01(n) == IF n < 0 THEN 0 ELSE IF n > 10000 THEN 10000 ELSE n

\* _safe_sigmoid, to four decimals, of the numbers of Values
safe_sigmoid(n) ==
    CASE n = 2000 -> 5498
      [] n = 9000 -> 7109
      [] n = 10000 -> 7311
      [] n = 900000 -> 10000

\* int(round(score * 100)): round() takes a half to the even neighbour
Severity(score) ==
    LET q == score \div 100
        r == score % 100
    IN IF r > 50 \/ (r = 50 /\ q % 2 = 1) THEN q + 1 ELSE q

\* TOXICITY_THRESHOLD, of the adapter and of the consumer, at its default
TOXICITY_THRESHOLD == 7000

\* the flagged of normalize_databricks_output
Flagged(label, positive_class, score) ==
    IF label # Null /\ positive_class # << >>
    THEN LowerStr(label.str) = LowerStr(positive_class)
    ELSE IF score # Null THEN score.num >= TOXICITY_THRESHOLD
    ELSE FALSE

normalize_databricks_output(raw_payload, spec) ==
    LET positive_class == Strip(spec.positive_class)
        found == IF spec.score_field # "" THEN extract_field(raw_payload, spec.score_field)
                 ELSE find_first_numeric(raw_payload)
        raw_score == IF found.kind = "number" THEN found ELSE Null
        label_value == IF spec.label_field # "" THEN extract_field(raw_payload, spec.label_field)
                       ELSE find_first_label(raw_payload)
        label == IF label_value.kind = "string" /\ Strip(label_value.str) # << >>
                 THEN String(Strip(label_value.str)) ELSE Null
        score == IF raw_score = Null THEN Null
                 ELSE CASE spec.score_type = "probability_0_1" -> Number(clamp01(raw_score.num))
                        [] spec.score_type = "percent_0_100" ->
                               Number(clamp01(raw_score.num \div 100))
                        [] spec.score_type = "logit" ->
                               Number(clamp01(safe_sigmoid(raw_score.num)))
                        [] OTHER -> Null
        severity == IF score # Null THEN Number(Severity(score.num) * 10000) ELSE Null
    IN Dict(<<Entry("label", label),
              Entry("score", score),
              Entry("severity", severity),
              Entry("threshold_used", Number(TOXICITY_THRESHOLD)),
              Entry("flagged", Boolean(Flagged(label, positive_class, score))),
              Entry("endpoint_id", String(<<"e">>)),
              Entry("raw", raw_payload),
              Entry("score_type", String(<<spec.score_type>>))>>)

\* _extract_numeric_score of the consumer
RECURSIVE extract_numeric_score(_)
RECURSIVE FirstScoreOf(_)
extract_numeric_score(payload) ==
    IF IsNumeric(payload) THEN Number(payload.num)
    ELSE IF payload.kind = "dict"
    THEN LET value == FirstUnderKeys(payload.items,
                          <<"toxicity", "score", "probability", "toxic", "prediction">>, TRUE)
         IN IF value # Null THEN Number(value.num) ELSE FirstScoreOf(payload.items)
    ELSE Null

\* its loop over payload.values()
FirstScoreOf(entries) ==
    IF entries = << >> THEN Null
    ELSE LET found == extract_numeric_score(Head(entries).value)
         IN IF found # Null THEN found ELSE FirstScoreOf(Tail(entries))

\* the score message of _score_and_send for a response of call_databricks_inference
ScoreMessage(response) ==
    LET score == extract_numeric_score(response)
    IN [type |-> "score",
        score |-> score,
        flagged |-> score # Null /\ score.num >= TOXICITY_THRESHOLD,
        threshold |-> TOXICITY_THRESHOLD,
        response |-> response]

\* The payloads of the endpoint: objects of up to MaxFields entries, scalars under keys
\* that the two searches know and a key that neither knows.
safe == <<"s", "a", "f", "e">>
Toxic == <<"T", "o", "x", "i", "c">>
toxic == <<"t", "o", "x", "i", "c">>
PayloadKeys == {"score", "prediction", "result"}
PayloadValues ==
    {Number(2000), Number(9000), Number(900000), String(safe), String(Toxic),
     String(<<" ">>), Boolean(TRUE), Null}
PayloadEntries == {Entry(k, v) : k \in PayloadKeys, v \in PayloadValues}
Payloads ==
    {Dict(entries) : entries \in
        {e \in UNION {[1..n -> PayloadEntries] : n \in 0..MaxFields} :
            \A i, j \in 1..Len(e) : e[i].key = e[j].key => i = j}}

\* _resolve_output_spec: what the settings give
OutputSpecs ==
    [score_type : {"probability_0_1", "percent_0_100", "logit", "none", "zscore"},
     score_field : {"", "score"},
     label_field : {"", "prediction"},
     positive_class : {<< >>, toxic}]

NoScoreResult == [called |-> FALSE, response |-> Null, messages |-> << >>]

ScoreInit ==
    /\ WsInit
    /\ consumer = "VoiceChat"
    /\ HttpIdle
    /\ QueryIdle
    /\ ValidationIdle
    /\ FLAG_TERMS = << >>
    /\ input_text \in [raw_payload : Payloads, spec : OutputSpecs]
    /\ result = NoScoreResult

\* call_databricks_inference returns the normalized output of the endpoint's payload.
call_databricks_inference_returns ==
    /\ ~result.called
    /\ result' = [result EXCEPT !.called = TRUE,
                     !.response = normalize_databricks_output(input_text.raw_payload,
                                                             input_text.spec)]
    /\ UNCHANGED <<FLAG_TERMS, input_text, wsVars, httpVars, qryVars, valVars>>

\* _score_and_send sends the score message for it.
score_and_send ==
    /\ result.called
    /\ result.messages = << >>
    /\ result' = [result EXCEPT !.messages = <<ScoreMessage(result.response)>>]
    /\ UNCHANGED <<FLAG_TERMS, input_text, wsVars, httpVars, qryVars, valVars>>

ScoreNext == call_databricks_inference_returns \/ score_and_send

ScoreSpec == ScoreInit /\ [][ScoreNext]_vars

(***************************************************************************)
(* validate_databricks_endpoint and call_databricks_inference              *)
(* (apps/voicechats/databricks/client.py)                                 *)
(*                                                                         *)
(* Each calling thread makes one call at a time.  A call of                *)
(* validate_databricks_endpoint is split where it waits for the answer to  *)
(* a request; call_databricks_inference is a validation without force and  *)
(* then one POST.  Nothing in the module serialises the callers.  A call   *)
(* is over within a tick (its requests time out after 3 + 10 or 3 + 30     *)
(* seconds), so the clock moves only while no call is in progress.         *)
(***************************************************************************)

VALIDATION_CACHE_TTL_SECONDS == 60

Seconds(ticks) == ticks * TickSeconds

\* urlparse(host).scheme and .netloc of the hosts of SettingsPool
Scheme(host) == IF host \in {"https://h", "https://"} THEN "https" ELSE ""
Netloc(host) == IF host = "https://h" THEN "h" ELSE ""

\* _validate_host: the error, or "None"
validate_host(host) ==
    IF host = "" THEN "DATABRICKS_HOST is missing."
    ELSE IF Scheme(host) \notin {"http", "https"}
    THEN "DATABRICKS_HOST must start with http:// or https://."
    ELSE IF Netloc(host) = "" THEN "DATABRICKS_HOST is not a valid URL."
    ELSE "None"

\* the first twelve hex digits of the SHA-256 of a token; the two tokens differ in them
Digest(token) == IF token = token1 THEN "d1" ELSE "d2"

\* _token_fingerprint
token_fingerprint(token) ==
    IF token = << >> THEN [len |-> 0, digest |-> "none"]
    ELSE [len |-> Len(token), digest |-> Digest(token)]

\* _validation_cache_key: the SHA-256 of host|endpoint|fingerprint, held as its three parts
validation_cache_key(config) ==
    [host |-> config.host, endpoint |-> config.endpoint,
     fingerprint |-> token_fingerprint(config.token)]

\* _read_config
read_config(settings_obj) ==
    [host |-> settings_obj.host, token |-> settings_obj.token, endpoint |-> settings_obj.endpoint]

AuthError == "Authentication/authorization failed while validating endpoint."
UnexpectedStatus == "Unexpected status code while validating endpoint"
TransportError == "str(exc)"

\* the error of a configuration that validate_databricks_endpoint refuses before any
\* request, or "None"
ConfigError(config) ==
    IF validate_host(config.host) # "None" THEN validate_host(config.host)
    ELSE IF config.token = << >> THEN "DATABRICKS_TOKEN is missing."
    ELSE IF config.endpoint = "" THEN "DATABRICKS_ENDPOINT is missing."
    ELSE "None"

\* ProbeValidStatuses with a fault: a throttled or unavailable endpoint is not valid
ProbeValidOnlyAnswered == {200, 400}

\* the statuses of the info route and of the invocation probe that decide at once, and
\* those that are valid
InfoDecidingStatuses == {200, 401, 403}
ProbeDecidingStatuses == {200, 400, 401, 403, 429, 503}
ProbeValidStatuses == {200, 400, 429, 503}

\* _validation_cache[cache_key] = {"checked_at": now, "is_valid": ..., "details": details}
CacheWith(key, checked_at, is_valid, error) ==
    [k \in DOMAIN validation_cache \cup {key} |->
        IF k = key THEN [checked_at |-> checked_at, is_valid |-> is_valid, error |-> error]
        ELSE validation_cache[k]]

\* The caller after validate_databricks_endpoint has returned (is_valid, details): the
\* call is over, unless it is call_databricks_inference with a valid endpoint, which
\* goes on to its POST.
Validated(c, is_valid, error) ==
    LET v == [c EXCEPT !.is_valid = is_valid, !.error = error, !.now = 0]
    IN  IF c.fn = "validate" THEN [v EXCEPT !.pc = "done", !.outcome = "returned"]
        ELSE IF is_valid THEN [v EXCEPT !.pc = "post"]
        ELSE [v EXCEPT !.pc = "done", !.outcome = "raised"]

\* validate_databricks_endpoint(settings, force), called for itself (fn = "validate") or
\* by call_databricks_inference (fn = "inference"), up to its first request.
validate_databricks_endpoint_begin(t, fn, force) ==
    /\ callers[t].pc \in {"idle", "done"}
    /\ fn = "inference" => ~force
    /\ LET config == read_config(settings)
           cache_key == validation_cache_key(config)
           c == [NoCaller EXCEPT !.fn = fn, !.force = force, !.now = clock, !.config = config]
       IN  IF /\ ~force
              /\ cache_key \in DOMAIN validation_cache
              /\ Seconds(clock - validation_cache[cache_key].checked_at)
                     < VALIDATION_CACHE_TTL_SECONDS
           THEN /\ callers' = [callers EXCEPT ![t] =
                       Validated([c EXCEPT !.cached = TRUE],
                                 validation_cache[cache_key].is_valid,
                                 validation_cache[cache_key].error)]
                /\ UNCHANGED validation_cache
           ELSE IF ConfigError(config) # "None"
           THEN /\ validation_cache' = CacheWith(cache_key, clock, FALSE, ConfigError(config))
                /\ callers' = [callers EXCEPT ![t] = Validated(c, FALSE, ConfigError(config))]
           ELSE /\ callers' = [callers EXCEPT ![t] = [c EXCEPT !.pc = "info"]]
                /\ UNCHANGED validation_cache
    /\ UNCHANGED <<settings, clock, wsVars, httpVars, clsVars, qryVars>>

\* The GET of the info route is answered.
validate_databricks_endpoint_info(t, answer) ==
    /\ callers[t].pc = "info"
    /\ LET c == [callers[t] EXCEPT !.info = answer]
           cache_key == validation_cache_key(c.config)
       IN  IF answer.raised
           THEN /\ validation_cache' = CacheWith(cache_key, c.now, FALSE, TransportError)
                /\ callers' = [callers EXCEPT ![t] = Validated(c, FALSE, TransportError)]
           ELSE IF answer.status \in InfoDecidingStatuses
           THEN LET is_valid == answer.status = 200
                    error == IF answer.status \in {401, 403} THEN AuthError ELSE "None"
                IN  /\ validation_cache' = CacheWith(cache_key, c.now, is_valid, error)
                    /\ callers' = [callers EXCEPT ![t] = Validated(c, is_valid, error)]
           ELSE /\ callers' = [callers EXCEPT ![t] = [c EXCEPT !.pc = "probe"]]
                /\ UNCHANGED validation_cache
    /\ UNCHANGED <<settings, clock, wsVars, httpVars, clsVars, qryVars>>

\* The POST of the invocation probe is answered.
validate_databricks_endpoint_probe(t, answer) ==
    /\ callers[t].pc = "probe"
    /\ LET c == [callers[t] EXCEPT !.probe = answer]
           cache_key == validation_cache_key(c.config)
           is_valid == ~answer.raised /\ answer.status \in ProbeValidStatuses
           error == IF answer.raised THEN TransportError
                    ELSE IF answer.status \notin ProbeDecidingStatuses THEN UnexpectedStatus
                    ELSE IF answer.status \in {401, 403} THEN AuthError
                    ELSE "None"
       IN  /\ validation_cache' = CacheWith(cache_key, c.now, is_valid, error)
           /\ callers' = [callers EXCEPT ![t] = Validated(c, is_valid, error)]
    /\ UNCHANGED <<settings, clock, wsVars, httpVars, clsVars, qryVars>>

\* call_databricks_inference after a valid validation: it reads the settings again, sends
\* its one POST and returns the normalized output, or raises on a RequestException or a
\* status of 400 or more.
call_databricks_inference_post(t, answer) ==
    /\ callers[t].pc = "post"
    /\ LET config == read_config(settings)
           c == [callers[t] EXCEPT !.pc = "done", !.config = config, !.info = NoAnswer,
                                   !.probe = NoAnswer]
       IN  callers' = [callers EXCEPT ![t] =
               IF config.host = "" \/ config.token = << >> \/ config.endpoint = ""
               THEN [c EXCEPT !.outcome = "raised"]
               ELSE IF answer.raised \/ answer.status >= 400
               THEN [c EXCEPT !.posts = @ + 1, !.invoke = answer, !.outcome = "raised"]
               ELSE [c EXCEPT !.posts = @ + 1, !.invoke = answer, !.outcome = "returned"]]
    /\ UNCHANGED <<settings, validation_cache, clock, wsVars, httpVars, clsVars, qryVars>>

\* DATABRICKS_TOKEN is replaced by a new token.
RotateToken ==
    /\ settings.token = token1
    /\ settings' = [settings EXCEPT !.token = token2]
    /\ UNCHANGED <<validation_cache, clock, callers, wsVars, httpVars, clsVars, qryVars>>

\* TickSeconds seconds pass.
ClockTick ==
    /\ clock < MaxTicks
    /\ \A t \in Callers : callers[t].pc \in {"idle", "done"}
    /\ clock' = clock + 1
    /\ UNCHANGED <<settings, validation_cache, callers, wsVars, httpVars, clsVars, qryVars>>

\* The settings: complete, or with one thing missing or wrong.
SettingsPool ==
    {GoodSettings,
     [GoodSettings EXCEPT !.host = ""],
     [GoodSettings EXCEPT !.host = "h"],
     [GoodSettings EXCEPT !.host = "https://"],
     [GoodSettings EXCEPT !.token = << >>],
     [GoodSettings EXCEPT !.endpoint = ""]}

InfoAnswers == {RequestRaised} \cup {Answer(status) : status \in {200, 401, 403, 404}}
ProbeAnswers ==
    {RequestRaised} \cup {Answer(status) : status \in {200, 400, 401, 403, 429, 500, 503}}
InvokeAnswers == {RequestRaised} \cup {Answer(status) : status \in {200, 429, 500, 503}}

ValidateInit ==
    /\ WsInit
    /\ consumer = "VoiceChat"
    /\ HttpIdle
    /\ ClassifierIdle
    /\ QueryIdle
    /\ settings \in SettingsPool
    /\ AdapterIdle

\* One caller, every configuration and every answer.
ValidateNext ==
    \/ \E fn \in {"validate", "inference"}, force \in BOOLEAN :
           validate_databricks_endpoint_begin(1, fn, force)
    \/ \E answer \in InfoAnswers : validate_databricks_endpoint_info(1, answer)
    \/ \E answer \in ProbeAnswers : validate_databricks_endpoint_probe(1, answer)
    \/ \E answer \in InvokeAnswers : call_databricks_inference_post(1, answer)
    \/ RotateToken
    \/ ClockTick

ValidateSpec == ValidateInit /\ [][ValidateNext]_vars

\* Several callers at once, as the sessions' scoring threads and the health view are, with
\* complete settings; of the answers, one of each kind that the calls tell apart.
CallersInit ==
    /\ WsInit
    /\ consumer = "VoiceChat"
    /\ HttpIdle
    /\ ClassifierIdle
    /\ QueryIdle
    /\ ValidationIdle

CallersNext ==
    \/ \E t \in Callers, fn \in {"validate", "inference"}, force \in BOOLEAN :
           validate_databricks_endpoint_begin(t, fn, force)
    \/ \E t \in Callers, answer \in {RequestRaised, Answer(200), Answer(404)} :
           validate_databricks_endpoint_info(t, answer)
    \/ \E t \in Callers, answer \in {Answer(503), Answer(500)} :
           validate_databricks_endpoint_probe(t, answer)
    \/ \E t \in Callers, answer \in {Answer(200), Answer(429)} :
           call_databricks_inference_post(t, answer)
    \/ RotateToken
    \/ ClockTick

CallersSpec == CallersInit /\ [][CallersNext]_vars

(***************************************************************************)
(* DatabricksClient.query_serving_endpoint (apps/databricks)              *)
(*                                                                         *)
(* One call of the method.  The remote endpoint is the environment: each   *)
(* requests.post is answered by some response, or fails with a             *)
(* requests.RequestException.  A step is the part of the method up to the  *)
(* next point where it blocks or ends: the code before the loop, one       *)
(* round of the loop up to the sleep, the return or the raise, and the     *)
(* return of the sleep.                                                    *)
(***************************************************************************)

QUERY_RETRY_ATTEMPTS == 3
\* the 500 of body[:500] in _raise_for_response
DetailLimit == 500

EndpointName == "ep"
EndpointUrl == "https://host/serving-endpoints/ep/invocations"
Host == "https://host"
\* endpoint_value.startswith("http://") or endpoint_value.startswith("https://")
IsUrl(value) == value = EndpointUrl
\* _build_url("/serving-endpoints/<endpoint_value>/invocations") with the host set
BuildUrl(host, endpoint_value) ==
    IF host = Host /\ endpoint_value = EndpointName THEN EndpointUrl ELSE ""

QueryArgs ==
    [endpoint_name : {"", EndpointName, EndpointUrl},
     default_endpoint_name : {"", EndpointName},
     host : {"", Host}]

\* The answers of the endpoint.  text is the body; json is what response.json() gives:
\* a payload, or "invalid" where the body is no JSON and json() raises.
Filler(n) == [i \in 1..n |-> "x"]
TransportFailure == [kind |-> "exception", status |-> 0, text |-> << >>, json |-> "invalid"]
Response(status, body, json) == [kind |-> "response", status |-> status, text |-> body, json |-> json]
ErrorBodies == {<< >>, <<" ", "x", " ">>, Filler(DetailLimit), Filler(DetailLimit + 1)}
Responses ==
    {TransportFailure}
    \cup {Response(status, body, "invalid") :
              status \in {429, 503}, body \in {<< >>, <<"x">>, Filler(DetailLimit + 1)}}
    \cup {Response(status, body, "invalid") : status \in {400, 500}, body \in ErrorBodies}
    \cup {Response(200, <<"x">>, json) : json \in {"payload1", "payload2", "invalid"}}
    \cup {Response(200, << >>, "invalid")}

Posted(response) == [event |-> "post", response |-> response, seconds |-> 0]
Slept(seconds) == [event |-> "sleep", response |-> TransportFailure, seconds |-> seconds]

ApiError(status, detail) == [type |-> "DatabricksAPIError", status |-> status, detail |-> detail]
\* DatabricksAPIError(f"Endpoint invocation failed: {exc}")
InvocationFailed == ApiError(0, <<"e", "x", "c">>)
\* DatabricksAPIError("Query request throttled/unavailable with status ...")
Throttled(status) == ApiError(status, << >>)
ValueError == [type |-> "ValueError", status |-> 0, detail |-> << >>]
JSONDecodeError == [type |-> "JSONDecodeError", status |-> 0, detail |-> << >>]
NoResponseBody ==
    <<"N", "o", " ", "r", "e", "s", "p", "o", "n", "s", "e", " ", "b", "o", "d", "y", ".">>

\* response.ok
Ok(response) == response.status < 400

\* _raise_for_response(response, "Endpoint invocation"): the error it raises, or NoError
\* where it returns.
raise_for_response(response) ==
    IF Ok(response) THEN NoError
    ELSE LET body == Strip(response.text) IN
         ApiError(response.status,
                  IF body = << >> THEN NoResponseBody
                  ELSE SubSeq(body, 1, MinOf({Len(body), DetailLimit})))

\* response.json() if response.content else {}
EmptyObject == "{}"
Returned(payload) == [state |-> "returned", error |-> NoError, payload |-> payload]
Raised(error) == [state |-> "raised", error |-> error, payload |-> "none"]

\* Retryable with a fault: a 500 is taken for a throttled request too.
RetryableServerErrors(status) == status \in {429, 500, 503}

\* response.status_code in (429, 503)
Retryable(status) == status \in {429, 503}

\* RetryDelay with a fault: the delay does not grow.
RetryDelayConstant(n) == 1

\* 2**attempt
RECURSIVE RetryDelay(_)
RetryDelay(n) == IF n = 0 THEN 1 ELSE 2 * RetryDelay(n - 1)

QueryInit ==
    /\ WsInit
    /\ consumer = "FlagAudio"
    /\ HttpIdle
    /\ ClassifierIdle
    /\ ValidationIdle
    /\ query_args \in QueryArgs
    /\ query_pc = "called"
    /\ url = ""
    /\ attempt = 0
    /\ last_error = NoError
    /\ query_log = << >>
    /\ query_result = NoQueryResult

QueryEnds(outcome) ==
    /\ query_pc' = "done"
    /\ query_result' = outcome

\* The code before the loop: the endpoint is taken from the argument or from the
\* default, and the url is built; ValueError without an endpoint or, for a name,
\* without a host.
query_serving_endpoint_begin ==
    /\ query_pc = "called"
    /\ LET endpoint_value == IF query_args.endpoint_name # "" THEN query_args.endpoint_name
                             ELSE query_args.default_endpoint_name
       IN  IF endpoint_value = "" \/ (~IsUrl(endpoint_value) /\ query_args.host = "")
           THEN QueryEnds(Raised(ValueError)) /\ UNCHANGED url
           ELSE /\ url' = IF IsUrl(endpoint_value) THEN endpoint_value
                          ELSE BuildUrl(query_args.host, endpoint_value)
                /\ query_pc' = "posting"
                /\ UNCHANGED query_result
    /\ attempt' = 0
    /\ last_error' = NoError
    /\ UNCHANGED <<query_args, query_log, wsVars, httpVars, clsVars, valVars>>

\* One round of the loop: the request is sent and answered by response.
query_serving_endpoint_post(response) ==
    /\ query_pc = "posting"
    /\ attempt < QUERY_RETRY_ATTEMPTS
    /\ IF response.kind = "exception"
       THEN /\ last_error' = InvocationFailed
            /\ query_log' = Append(query_log, Posted(response))
            /\ QueryEnds(Raised(InvocationFailed))
       ELSE IF Retryable(response.status) /\ attempt < QUERY_RETRY_ATTEMPTS - 1
       THEN /\ last_error' = Throttled(response.status)
            /\ query_log' = query_log \o <<Posted(response), Slept(RetryDelay(attempt))>>
            /\ query_pc' = "sleeping"
            /\ UNCHANGED query_result
       ELSE /\ query_log' = Append(query_log, Posted(response))
            /\ IF raise_for_response(response) # NoError
               THEN /\ last_error' = raise_for_response(response)
                    /\ QueryEnds(Raised(raise_for_response(response)))
               ELSE /\ UNCHANGED last_error
                    /\ QueryEnds(IF response.text = << >> THEN Returned(EmptyObject)
                                 ELSE IF response.json = "invalid" THEN Raised(JSONDecodeError)
                                 ELSE Returned(response.json))
    /\ UNCHANGED <<query_args, url, attempt, wsVars, httpVars, clsVars, valVars>>

\* time.sleep(2**attempt) returns and the loop goes on; after the last round the code
\* below the loop raises last_error.
query_serving_endpoint_wake ==
    /\ query_pc = "sleeping"
    /\ attempt' = attempt + 1
    /\ IF attempt + 1 < QUERY_RETRY_ATTEMPTS
       THEN query_pc' = "posting" /\ UNCHANGED query_result
       ELSE QueryEnds(Raised(last_error))
    /\ UNCHANGED <<query_args, url, last_error, query_log, wsVars, httpVars, clsVars, valVars>>

QueryNext ==
    \/ query_serving_endpoint_begin
    \/ \E response \in Responses : query_serving_endpoint_post(response)
    \/ query_serving_endpoint_wake

\* requests.post is given connect and read timeouts and time.sleep returns, so a call
\* that can take a step takes it.
QuerySpec == QueryInit /\ [][QueryNext]_vars /\ WF_vars(QueryNext)

(***************************************************************************)
(* C18..C20: the matches of classify_text                                  *)
(***************************************************************************)

Overlap(m1, m2) == m1.start < m2.end /\ m2.start < m1.end

\* C18: no two matches of a result overlap: the spans [start, end) of distinct matches
\* are disjoint, the fuzzy ones included.
C18_MatchesNeverOverlap ==
    result.called =>
        \A i, j \in 1..Len(result.matches) :
            i # j => ~Overlap(result.matches[i], result.matches[j])

\* C19: phrase terms win over word terms whatever the order of the lexicon: no match of
\* a word term is reported that overlaps a reported match of a phrase term.
C19_PhraseWinsOverWord ==
    result.called =>
        \A i, j \in 1..Len(result.matches) :
            (HasSpace(result.matches[i].term) /\ ~HasSpace(result.matches[j].term)) =>
                ~Overlap(result.matches[i], result.matches[j])

\* The words of the normalized text, as strings.
WordsOfNormalized ==
    LET ws == Words(result.normalized, 0) IN
    {SubSeq(result.normalized, ws[k].start_n + 1, ws[k].end_n) : k \in 1..Len(ws)}

\* C20: a fuzzy match is reported only for a term that is a single word, of severity 3 or
\* more in the lexicon, of 5 characters or more, and that is no word of the normalized
\* text (it has no exact match there); the span reported is not the term itself.
C20_FuzzyOnlyForSevereLongAbsentWords ==
    result.called =>
        \A k \in 1..Len(result.fuzzy) :
            LET f == result.fuzzy[k] IN
            /\ ~HasSpace(f.term)
            /\ f.severity >= 3
            /\ \E i \in 1..Len(FLAG_TERMS) :
                   FLAG_TERMS[i].term = f.term /\ FLAG_TERMS[i].severity = f.severity
            /\ Len(f.term) >= 5
            /\ f.term \notin WordsOfNormalized
            /\ \E i \in 1..Len(result.matches) : result.matches[i] = f

\* C20 witness: a result holds a fuzzy match of one term next to an exact match of another.
C20_Witness ==
    /\ result.called
    /\ Len(result.fuzzy) = 1
    /\ Len(result.matches) = 2
    /\ result.fuzzy[1].term = useless
    /\ \E i \in 1..2 : result.matches[i].term = trash

(***************************************************************************)
(* C21..C24, C28: what classify_text reports                               *)
(***************************************************************************)

\* t occurs inside w, and w is longer than t.
ProperSubstring(t, w) ==
    /\ Len(t) < Len(w)
    /\ \E p \in 0..(Len(w) - Len(t)) : SubSeq(w, p + 1, p + Len(t)) = t

\* C21: matching is whole-token: a token of the text that holds a term of the lexicon as
\* a proper substring gives no match of that term, neither exact nor fuzzy.
C21_WholeTokenMatching ==
    result.called =>
        LET ws == Words(result.normalized, 0) IN
        \A k \in 1..Len(ws), i \in 1..Len(FLAG_TERMS) :
            ProperSubstring(FLAG_TERMS[i].term,
                            SubSeq(result.normalized, ws[k].start_n + 1, ws[k].end_n)) =>
                ~\E m \in 1..Len(result.matches) :
                    /\ result.matches[m].term = FLAG_TERMS[i].term
                    /\ result.matches[m].start = result.index_map[ws[k].start_n + 1]
                    /\ result.matches[m].end = result.index_map[ws[k].end_n] + 1

\* The matches of term t that touch the span [ts, te) of the text.
MatchesOn(t, ts, te) ==
    {m \in 1..Len(result.matches) :
        /\ result.matches[m].term = t
        /\ result.matches[m].start < te
        /\ ts < result.matches[m].end}

\* C21 as the code has it: a token that holds a term as a proper substring gives no exact
\* match of that term; it gives a fuzzy match of it only as a whole token one character
\* longer than the term, for a term of severity 3 or more and 5 characters or more that
\* is no token of the text.  Where the term is also a token of the text, the matches of
\* the term are its exact occurrences, one each.
C21_WholeTokenOrOneEdit ==
    result.called =>
        LET ws == Words(result.normalized, 0)
            word(k) == SubSeq(result.normalized, ws[k].start_n + 1, ws[k].end_n)
        IN
        \A k \in 1..Len(ws), i \in 1..Len(FLAG_TERMS) :
            LET t == FLAG_TERMS[i].term
                ts == result.index_map[ws[k].start_n + 1]
                te == result.index_map[ws[k].end_n] + 1
            IN
            ProperSubstring(t, word(k)) =>
                /\ \A m \in MatchesOn(t, ts, te) :
                       /\ result.matches[m].start = ts /\ result.matches[m].end = te
                       /\ \E f \in 1..Len(result.fuzzy) : result.fuzzy[f] = result.matches[m]
                       /\ Len(word(k)) = Len(t) + 1
                       /\ Len(t) >= 5
                       /\ result.matches[m].severity >= 3
                       /\ t \notin WordsOfNormalized
                /\ t \in WordsOfNormalized =>
                       Cardinality({m \in 1..Len(result.matches) : result.matches[m].term = t})
                           = Cardinality({j \in 1..Len(ws) : word(j) = t})

\* C21 witness: a text with a token that holds a severe term of 5 characters and one
\* exact occurrence of the term has exactly one match.
C21_Witness ==
    /\ result.called
    /\ Len(FLAG_TERMS) = 1
    /\ FLAG_TERMS[1].severity >= 3
    /\ Len(FLAG_TERMS[1].term) >= 5
    /\ Cardinality(WordsOfNormalized) = 2
    /\ FLAG_TERMS[1].term \in WordsOfNormalized
    /\ \E w \in WordsOfNormalized : ProperSubstring(FLAG_TERMS[1].term, w)
    /\ Len(result.matches) = 1

\* C22: every match of a result is redacted: it has redacted = true and no term field,
\* only category, severity and the span.
C22_MatchesAreRedacted ==
    result.called =>
        \A m \in 1..Len(result.matches) :
            /\ "term" \notin DOMAIN result.matches[m]
            /\ DOMAIN result.matches[m] = {"redacted", "category", "severity", "start", "end"}
            /\ result.matches[m].redacted = TRUE

RECURSIVE SeveritySum(_)
SeveritySum(ms) == IF ms = << >> THEN 0 ELSE ms[Len(ms)].severity + SeveritySum(SubSeq(ms, 1, Len(ms) - 1))

\* min(1.0, S / 10), in tenths
ScoreOf(S) == IF S >= 10 THEN 10 ELSE S

\* C23: the score of a result is min(1.0, S / 10), S being the sum of the severities of
\* the reported matches; it lies in [0, 1] and does not decrease as S grows; flagged
\* holds exactly when the score is above 0, which is exactly when there is a match; the
\* label is "flag" exactly when flagged, and "ok" otherwise.
C23_ScoreFromSeverities ==
    result.called =>
        LET S == SeveritySum(result.matches) IN
        /\ result.score_tenths = ScoreOf(S)
        /\ result.score_tenths \in 0..10
        /\ \A smaller \in 0..S : ScoreOf(smaller) <= result.score_tenths
        /\ result.flagged = (result.score_tenths > 0)
        /\ result.flagged = (Len(result.matches) > 0)
        /\ result.label = (IF result.flagged THEN "flag" ELSE "ok")

\* C23 witness: a result whose matches sum to more than 10, so that the score is cut at 1.
C23_Witness ==
    /\ result.called
    /\ Len(result.matches) >= 2
    /\ SeveritySum(result.matches) > 10
    /\ result.score_tenths = 10
    /\ result.flagged

\* C24: every result holds a category_scores map, and every match carries the category
\* of its term.
C24_CategoryScores ==
    result.called =>
        /\ "category_scores" \in DOMAIN result
        /\ \A m \in 1..Len(result.matches) : "category" \in DOMAIN result.matches[m]

\* C28: every entry of the lexicon the matcher uses has a severity in 1..5, so that one
\* match adds at most 5 to the total severity.
C28_SeverityWithinOneToFive ==
    result.called =>
        /\ \A i \in 1..Len(FLAG_TERMS) : FLAG_TERMS[i].severity \in 1..5
        /\ \A m \in 1..Len(result.matches) : result.matches[m].severity \in 1..5

(***************************************************************************)
(* C25..C27: normalize_text                                                *)
(***************************************************************************)

\* result is what normalize_text returned for result.text
Normalized == result.called /\ "text" \in DOMAIN result
\* result is what classify_text returned
Classified == result.called /\ "matches" \in DOMAIN result

\* C25: normalize_text is idempotent on its text component: normalizing the normalized
\* text gives the normalized text again.
C25_NormalizeIdempotent ==
    Normalized => normalize_text(result.normalized).normalized = result.normalized

\* C25 witness: a text that normalization changed, into two tokens with a space between.
C25_Witness ==
    /\ Normalized
    /\ result.normalized = <<"t", " ", "a">>
    /\ Len(result.text) = MaxChars

\* index_map has one entry for each character of normalized, does not decrease, holds
\* offsets into str, and leads each character of normalized that is no space to the
\* character of str it is the lower case of.
IndexMapSound(str, normalized, index_map) ==
    /\ Len(index_map) = Len(normalized)
    /\ \A i \in 1..Len(index_map) : index_map[i] \in 0..(Len(str) - 1)
    /\ \A i, j \in 1..Len(index_map) : i <= j => index_map[i] <= index_map[j]
    /\ \A i \in 1..Len(normalized) :
           normalized[i] # " " => Lower(str[index_map[i] + 1]) = normalized[i]

\* C26: for every text, normalize_text returns an index_map as long as the normalized
\* text, non-decreasing, of valid offsets into the text, each leading a character that
\* is no space to the character it came from; hence every match reported by
\* classify_text has 0 <= start < end <= len(transcript).
C26_IndexMapAndSpans ==
    /\ Normalized => IndexMapSound(result.text, result.normalized, result.index_map)
    /\ Classified =>
           /\ IndexMapSound(result.transcript, result.normalized, result.index_map)
           /\ \A m \in 1..Len(result.matches) :
                  /\ 0 <= result.matches[m].start
                  /\ result.matches[m].start < result.matches[m].end
                  /\ result.matches[m].end <= Len(result.transcript)

\* C26 witness: a phrase matched across a separator of two characters.
C26_Witness ==
    /\ Classified
    /\ Len(result.matches) >= 1
    /\ result.matches[1].term = <<"t", " ", "a">>
    /\ result.matches[1].end - result.matches[1].start > 3

BackTick == "U+0060"
Apostrophes == {"'", BackTick, CurlyApostrophe}

\* C27: an apostrophe, or a variant of it, inside a token is kept as the canonical
\* apostrophe in the normalized text, so that it does not split the token in two.
C27_ApostropheKept ==
    Normalized =>
        \A i \in 2..(Len(result.text) - 1) :
            (/\ result.text[i] \in Apostrophes
             /\ Lower(result.text[i - 1]) \in Alnum
             /\ Lower(result.text[i + 1]) \in Alnum) =>
                \E j \in 1..Len(result.normalized) :
                    result.normalized[j] = "'" /\ result.index_map[j] = i - 1

(***************************************************************************)
(* C29, C30: the retries of query_serving_endpoint                         *)
(***************************************************************************)

Posts == SelectSeq(query_log, LAMBDA e : e.event = "post")
Sleeps == SelectSeq(query_log, LAMBDA e : e.event = "sleep")
SleepSeconds == [k \in 1..Len(Sleeps) |-> Sleeps[k].seconds]

\* every request so far was answered with 429 or 503
AllThrottled ==
    \A i \in 1..Len(Posts) :
        Posts[i].response.kind = "response" /\ Posts[i].response.status \in {429, 503}

C29_RetrySchedule ==
    /\ Len(Posts) <= QUERY_RETRY_ATTEMPTS
    /\ AllThrottled =>
           /\ \A i \in 1..Len(query_log) :
                  query_log[i].event = (IF i % 2 = 1 THEN "post" ELSE "sleep")
           /\ IsPrefix(SleepSeconds, <<1, 2>>)
           /\ Len(Posts) < QUERY_RETRY_ATTEMPTS =>
                  /\ Len(Sleeps) = Len(Posts)
                  /\ query_pc # "done" \/ Len(Posts) = 0
           /\ Len(Posts) = QUERY_RETRY_ATTEMPTS =>
                  /\ Len(Sleeps) = QUERY_RETRY_ATTEMPTS - 1
                  /\ query_pc = "done"
                  /\ query_result.state = "raised"
                  /\ query_result.error.type = "DatabricksAPIError"

\* C29: when the endpoint answers every request with 503 or 429, the call sends exactly
\* QUERY_RETRY_ATTEMPTS (3) requests, sleeps 1 s and then 2 s between them and not after
\* the last, and then ends by raising an error; no call sends more than
\* QUERY_RETRY_ATTEMPTS requests, and every call ends.
C29_ThrottledQueryRetriesThenRaises == []C29_RetrySchedule /\ <>(query_pc = "done")

\* C29 witness: three requests answered 503, 429 and 503, and the call has raised.
C29_Witness ==
    /\ Len(Posts) = QUERY_RETRY_ATTEMPTS
    /\ Posts[1].response.status = 503
    /\ Posts[2].response.status = 429
    /\ Posts[3].response.status = 503
    /\ SleepSeconds = <<1, 2>>
    /\ query_result.state = "raised"

\* C30: a response with a status of 400 or more other than 429 and 503, or a failure of
\* the transport, ends the call at once: it is the last entry of the log (no request and
\* no sleep follows) and the call has raised; for a response the detail of the error is
\* the stripped body cut at DetailLimit characters ("No response body." for an empty
\* one).  A 2xx response, on any attempt, ends the call with the payload of that
\* response: its JSON body, {} for an empty body; a body that is no JSON has no payload
\* and the decoder's error is raised.
C30_FailFastAndSuccess ==
    \A i \in 1..Len(query_log) :
        LET response == query_log[i].response
            body == Strip(response.text)
        IN
        query_log[i].event = "post" =>
            /\ (response.kind = "exception" \/
                (response.status >= 400 /\ response.status \notin {429, 503})) =>
                   /\ i = Len(query_log)
                   /\ query_pc = "done"
                   /\ query_result.state = "raised"
                   /\ query_result.error.type = "DatabricksAPIError"
                   /\ response.kind = "response" =>
                          /\ query_result.error.status = response.status
                          /\ Len(query_result.error.detail) <= DetailLimit
                          /\ body # << >> =>
                                 /\ IsPrefix(query_result.error.detail, body)
                                 /\ Len(query_result.error.detail)
                                        = MinOf({Len(body), DetailLimit})
                          /\ body = << >> => query_result.error.detail = NoResponseBody
            /\ (response.kind = "response" /\ response.status \in 200..299) =>
                   /\ i = Len(query_log)
                   /\ query_pc = "done"
                   /\ response.text = << >> => query_result = Returned(EmptyObject)
                   /\ (response.text # << >> /\ response.json # "invalid") =>
                          query_result = Returned(response.json)
                   /\ (response.text # << >> /\ response.json = "invalid") =>
                          query_result = Raised(JSONDecodeError)

\* C30 witness: a 200 on the third attempt, after a 429 and a 503, and the call has
\* returned the payload of the 200.
C30_Witness ==
    /\ Len(Posts) = QUERY_RETRY_ATTEMPTS
    /\ Posts[1].response.status = 429
    /\ Posts[2].response.status = 503
    /\ Posts[3].response.status = 200
    /\ query_result = Returned("payload2")

(***************************************************************************)
(* C38: _edit_distance_at_most_one                                         *)
(***************************************************************************)

\* long is short with one character put in somewhere
OneInsertion(short, long) ==
    /\ Len(long) = Len(short) + 1
    /\ \E p \in 1..Len(long) :
           SubSeq(long, 1, p - 1) \o SubSeq(long, p + 1, Len(long)) = short

\* a and b have one length and differ at one place
OneSubstitution(a, b) ==
    /\ Len(a) = Len(b)
    /\ Cardinality({p \in 1..Len(a) : a[p] # b[p]}) = 1

\* the edit distance of a and b is at most 1
WithinOneEdit(a, b) ==
    a = b \/ OneSubstitution(a, b) \/ OneInsertion(a, b) \/ OneInsertion(b, a)

\* C38: _edit_distance_at_most_one(a, b) is true exactly when the edit distance of a and
\* b is at most 1 (equal, or one insertion, deletion or substitution apart), and it gives
\* the same for (b, a); "uselss" is accepted against "useless".
C38_EditDistanceAtMostOne ==
    (result.called /\ "left" \in DOMAIN result) =>
        /\ result.value = WithinOneEdit(result.left, result.right)
        /\ result.value = edit_distance_at_most_one(result.right, result.left)
        /\ (result.left = uselss /\ result.right = useless) => result.value

\* C38 witness: "uselss" has been compared with "useless" and accepted.
C38_Witness ==
    /\ result.called
    /\ "left" \in DOMAIN result
    /\ result.left = uselss
    /\ result.right = useless
    /\ result.value

(***************************************************************************)
(* C35, C37: the normalized output and the score message                   *)
(***************************************************************************)

\* the value of a field of the normalized output that call_databricks_inference returned
Normal(key) == Get(result.response.items, key)

Scored == "response" \in DOMAIN result /\ result.called

\* the extracted label matches positive_class, case-insensitively
LabelMatches ==
    /\ Normal("label") # Null
    /\ LowerStr(Normal("label").str) = LowerStr(Strip(input_text.spec.positive_class))

\* C35: flagged is true if the extracted label matches positive_class case-insensitively;
\* otherwise, a label that does not match included, flagged is (score >= threshold) if a
\* score was derived, and false if none was.
C35_FlaggedByLabelElseScore ==
    Scored =>
        (Normal("flagged") = Boolean(TRUE)) =
            (IF LabelMatches THEN TRUE
             ELSE IF Normal("score") # Null
                  THEN Normal("score").num >= Normal("threshold_used").num
             ELSE FALSE)

\* C37: in every score message, score and flagged are those of the normalized output, so
\* that with no score derived and no label matched the message has score null and
\* flagged false, and no other number of the output is given as the score.
C37_ScoreMessageAgrees ==
    Scored =>
        \A i \in 1..Len(result.messages) :
            /\ result.messages[i].score = Normal("score")
            /\ result.messages[i].flagged = (Normal("flagged") = Boolean(TRUE))

(***************************************************************************)
(* C36, C40: the requests of the HTTP stream registry                      *)
(***************************************************************************)

\* C36: a request without its required input is answered with 400 and the registry is as
\* it was: transcribe_chunk with an empty body or a sample_rate that is not an integer,
\* and finalize_stream with a body that gives no stream_id.
C36_MissingInputRejected ==
    [][\A t \in RequestThreads :
          /\ \A id \in StreamIds, rate \in {"not_int", "int"}, body_ok \in BOOLEAN :
                (transcribe_chunk_begin(t, id, rate, body_ok) /\ (rate = "not_int" \/ ~body_ok))
                    => /\ requests'[t].pc = "done"
                       /\ requests'[t].status = 400
                       /\ STREAMS' = STREAMS
          /\ \A id \in {"", NotAnObject} :
                finalize_stream_begin(t, id)
                    => /\ requests'[t].pc = "done"
                       /\ requests'[t].status = 400
                       /\ STREAMS' = STREAMS]_vars

\* thread t, serving a finalize_stream, gives its response in this step
FinalizeResponds(t) ==
    /\ requests[t].view = "finalize_stream"
    /\ requests[t].pc = "lock"
    /\ requests'[t].pc = "done"

\* the transcripts that a finalize of a stream in this state can return: the segments
\* appended to it, then the recognizer's last words if there are any
TranscriptsOf(state) ==
    {Join(state.segments), Join(Appended(state.segments, <<"a">>))}

\* for every live stream, segment_counter is the number of segments appended
CounterCountsSegments ==
    \A id \in StreamIds :
        STREAMS[id].present => STREAMS[id].segment_counter = Len(STREAMS[id].segments)

\* C40 as stated: the finalize that finds the stream returns its transcript, and takes it
\* out of the registry, so that every other finalize of it finds none and returns 404;
\* the transcript is the join of the segments appended; segment_counter counts them.
C40_ExactlyOneFinalizeReturnsTranscript ==
    /\ [][\A t \in RequestThreads :
             FinalizeResponds(t) =>
                 LET id == requests[t].stream_id
                 IN  IF STREAMS[id].present
                     THEN /\ requests'[t].status = 200
                          /\ requests'[t].text \in TranscriptsOf(STREAMS[id])
                          /\ ~STREAMS'[id].present
                     ELSE requests'[t].status = 404]_vars
    /\ []CounterCountsSegments

\* C40, amended: the finalize that finds the stream takes it out of the registry and
\* returns its transcript, or 500 if the recognizer fails; a finalize that finds none
\* returns 404 and changes nothing; so at most one finalize returns a transcript of an
\* instance.  The transcript is the join of the segments appended followed by the
\* recognizer's last words, and segment_counter counts the segments of a live stream.
C40_AtMostOneFinalizeReturnsTranscript ==
    /\ [][\A t \in RequestThreads :
             FinalizeResponds(t) =>
                 LET id == requests[t].stream_id
                 IN  IF STREAMS[id].present
                     THEN /\ \/ requests'[t].status = 500
                             \/ /\ requests'[t].status = 200
                                /\ requests'[t].text \in TranscriptsOf(STREAMS[id])
                          /\ ~STREAMS'[id].present
                          /\ \A u \in RequestThreads \ {t} : requests'[u] = requests[u]
                     ELSE /\ requests'[t].status = 404
                          /\ STREAMS' = STREAMS]_vars
    /\ []CounterCountsSegments

\* C40 witness: two finalize requests for one stream were in progress together; one has
\* returned the transcript of its segment and the other 404.
C40_Witness ==
    \E t, u \in RequestThreads :
        /\ requests[t].view = "finalize_stream"
        /\ requests[u].view = "finalize_stream"
        /\ requests[t].stream_id = requests[u].stream_id
        /\ requests[t].pc = "done"
        /\ requests[t].status = 200
        /\ requests[t].text # EmptyText
        /\ requests[u].pc = "done"
        /\ requests[u].status = 404

(***************************************************************************)
(* C31..C34, C39: validation and invocation of the remote endpoint         *)
(***************************************************************************)

\* C31: call_databricks_inference tries again after a 429 or a 503, so that a call that
\* has failed on one of them has sent more than one invocation request (and one 429 or
\* 503 followed by a 200 is a success).
C31_InvocationRetriesThrottled ==
    \A t \in Callers :
        (/\ callers[t].fn = "inference"
         /\ callers[t].pc = "done"
         /\ callers[t].outcome = "raised"
         /\ callers[t].invoke.status \in {429, 503}) => callers[t].posts > 1

\* the key of the configuration that a call beginning now reads
KeyNow == validation_cache_key(read_config(settings))

\* caller t has a validation request in flight
Probing(t) == callers[t].pc \in {"info", "probe"}

\* the cache has an entry for the key that is less than the TTL old
Fresh(key) ==
    /\ key \in DOMAIN validation_cache
    /\ Seconds(clock - validation_cache[key].checked_at) < VALIDATION_CACHE_TTL_SECONDS

\* A validation request for the key was sent less than the TTL ago: one is in flight
\* (calls take no time on the clock), or one was answered and its entry is fresh.
RecentProbe(key) ==
    \/ \E u \in Callers : Probing(u) /\ validation_cache_key(callers[u].config) = key
    \/ Fresh(key)

\* caller t begins a call in this step
Begins(t) == callers[t].pc \in {"idle", "done"} /\ callers'[t] # callers[t]

\* caller t gets the last answer of its validation in this step
ProbeEnds(t) == Probing(t) /\ callers'[t].pc \in {"post", "done"}

\* C32: a call without force made less than 60 s after the previous probe for its key
\* sends no request and returns the cached validity; a call made 60 s or more after it,
\* or with force, or with a rotated token, sends a new probe, whose result replaces the
\* cache entry.
C32_CachedForSixtySeconds ==
    [][\A t \in Callers :
          /\ Begins(t) =>
                IF ~callers'[t].force /\ RecentProbe(KeyNow)
                THEN /\ ~Probing(t)'
                     /\ KeyNow \in DOMAIN validation_cache
                     /\ callers'[t].is_valid = validation_cache[KeyNow].is_valid
                ELSE Probing(t)'
          /\ ProbeEnds(t) =>
                LET key == validation_cache_key(callers[t].config)
                IN  /\ key \in DOMAIN validation_cache'
                    /\ validation_cache'[key].checked_at = callers[t].now
                    /\ validation_cache'[key].is_valid = callers'[t].is_valid]_vars

\* C33: the check and the update of the cache exclude one another: of the callers that
\* find no fresh entry for one configuration, one at most has a probe in flight.
C33_OneProbeAtATime ==
    \A t, u \in Callers :
        (t # u /\ Probing(t) /\ Probing(u))
            => validation_cache_key(callers[t].config) # validation_cache_key(callers[u].config)

\* a call of validate_databricks_endpoint that was not answered from the cache has its
\* result
Decided(c) ==
    /\ ~c.cached
    /\ \/ c.pc = "post"
       \/ c.pc = "done" /\ (c.fn = "validate" \/ ~c.is_valid)

\* C34: info status 200 is valid; 401 or 403 is invalid with the authentication error;
\* any other info status leads to one invocation probe, of which 200, 400, 429 and 503
\* are valid, 401 and 403 invalid with the authentication error, and any other status or
\* an exception invalid; a wrong host, a missing token or a missing endpoint is invalid
\* with no request sent.
C34_ProbeOutcomesClassified ==
    \A t \in Callers :
        LET c == callers[t]
        IN  Decided(c) =>
                IF \/ c.config.host \in {"", "h", "https://"}
                   \/ c.config.token = << >>
                   \/ c.config.endpoint = ""
                THEN ~c.is_valid /\ c.info = NoAnswer /\ c.probe = NoAnswer
                ELSE IF c.info.raised THEN ~c.is_valid /\ c.probe = NoAnswer
                ELSE IF c.info.status = 200 THEN c.is_valid /\ c.probe = NoAnswer
                ELSE IF c.info.status \in {401, 403}
                THEN ~c.is_valid /\ c.error = AuthError /\ c.probe = NoAnswer
                ELSE /\ c.info # NoAnswer
                     /\ c.probe # NoAnswer
                     /\ IF c.probe.raised THEN ~c.is_valid
                        ELSE IF c.probe.status \in {200, 400, 429, 503} THEN c.is_valid
                        ELSE IF c.probe.status \in {401, 403}
                        THEN ~c.is_valid /\ c.error = AuthError
                        ELSE ~c.is_valid

\* C34 witness: a validation whose info route answered 404 and whose invocation probe
\* answered 429 has returned valid.
C34_Witness ==
    \E t \in Callers :
        /\ callers[t].pc = "done"
        /\ callers[t].fn = "validate"
        /\ callers[t].info = Answer(404)
        /\ callers[t].probe = Answer(429)
        /\ callers[t].is_valid

\* C39: an invalid result is cached as a valid one is, and scoring fails closed on it:
\* while the entry of the configuration is invalid and less than 60 s old, a
\* call_databricks_inference that begins raises with no request sent; and no invocation
\* request is sent while the entry of its configuration is invalid.
C39_FailsClosedWhileInvalid ==
    [][\A t \in Callers :
          /\ (/\ Begins(t)
              /\ callers'[t].fn = "inference"
              /\ Fresh(KeyNow)
              /\ ~validation_cache[KeyNow].is_valid)
                 => /\ callers'[t].pc = "done"
                    /\ callers'[t].outcome = "raised"
                    /\ callers'[t].posts = 0
          /\ (callers[t].pc = "post" /\ callers'[t].posts = 1)
                 => (KeyNow \in DOMAIN validation_cache => validation_cache[KeyNow].is_valid)]_vars
====
